---- MODULE Spec2Model ----
(***************************************************************************)
(* A model of the distributed (threshold-signing) wallet: the wallet and   *)
(* account state machines, the index, the batch, and the Store and         *)
(* Encryptor they are built on.                                            *)
(*                                                                         *)
(* Byte strings are sequences of small integers.  A private key is KeyLen  *)
(* bytes; the all-zero key is the one BLSPrivateKeyFromBytes rejects.  A   *)
(* public key is one integer; 0 is the value BLSPublicKeyFromBytes         *)
(* rejects.  UUIDs are positive integers drawn fresh from a counter.       *)
(* Names are sequences of characters, so that the empty name and the       *)
(* reserved prefix are computed and not assumed.                           *)
(***************************************************************************)
EXTENDS Integers, Sequences, FiniteSets, TLC

\* ------------------------------------------------------------------ bounds

\* Fresh account UUIDs the model may draw (newAccount calls that register).
MaxAccounts == 2
\* Largest signing threshold / verification vector length offered to import.
MaxThreshold == 2
\* Largest number of participants offered to import.
MaxParticipants == 3
\* Wallets that CreateWallet may create in all (fresh wallet UUIDs).
MaxWallets == 2
\* Threads that call the one wallet instance at the same time.
MaxThreads == 2

\* ------------------------------------------------------------------ values

Key1 == <<0, 1>>
Key2 == <<0, 2>>
ZeroKey == <<0, 0>>
KeyLen == Len(Key1)

NoName == <<>>
NameA == <<"a">>
NameB == <<"b">>
NameReserved == <<"_", "a">>
NameForeign == <<"f">>

WalletNames == {"w"}
Passphrases == {"p1", "p2"}

\* The n-th UUID drawn for a wallet; 0 is the UUID of no wallet.
WalletUUID(n) == <<"wallet-uuid", n>>
walletType == "distributed"
\* A wallet of another package kept in the same Store.
ForeignWalletType == "non-deterministic"
ForeignWalletUUID == <<"foreign-wallet-uuid", 1>>

\* Every input of ImportDistributedAccount over the bounded domains.
NameInputs == {NoName, NameReserved, NameA, NameB}
KeyInputs == {<<>>, Key1, Key2, ZeroKey}
VVKeys == {0, 21}
VVInputs == UNION {[1..n -> VVKeys] : n \in 0..MaxThreshold}
ParticipantInputs == {1..n : n \in 0..MaxParticipants}

AllImportInputs ==
    [name : NameInputs, privatekey : KeyInputs, signingThreshold : 0..MaxThreshold,
     verificationVector : VVInputs, participants : ParticipantInputs,
     passphrase : Passphrases]

\* The inputs the wallet's callers draw from in Spec: well-formed ones, each
\* name with its own key and passphrase, and the largest threshold with the
\* most participants it is a strict majority of.  SpecInputs offers every
\* other input.
Credentials ==
    {[name |-> NameA, privatekey |-> Key1, passphrase |-> "p1"],
     [name |-> NameB, privatekey |-> Key2, passphrase |-> "p2"]}
ImportInputs ==
    {[name |-> c.name, privatekey |-> c.privatekey, signingThreshold |-> MaxThreshold,
      verificationVector |-> [i \in 1..MaxThreshold |-> 21],
      participants |-> 1..(2 * MaxThreshold - 1), passphrase |-> c.passphrase] :
        c \in Credentials}

NoInput ==
    [name |-> NoName, privatekey |-> <<>>, signingThreshold |-> 0,
     verificationVector |-> <<>>, participants |-> {}, passphrase |-> "p1"]

\* Where the Store may fail during one import.
ImportFaults == {"none", "RetrieveExisting", "StoreAccountsIndex", "StoreAccount", "RetrieveByName", "RetrieveByID"}

\* ------------------------------------------------------------------ errors

ErrNone == ""
ErrNameMissing == "account name missing"
ErrNameInvalid == "invalid account name"
ErrKeyMissing == "private key missing"
ErrVVMissing == "verification vector missing"
ErrParticipantsMissing == "participants missing"
ErrRatio == "invalid signing threshold:participant ratio"
ErrVVInvalid == "verification vector invalid"
ErrWalletLocked == "wallet must be unlocked to create accounts"
ErrExists == "account with name already exists"
ErrBadPrivateKey == "failed to obtain BLS private key"
ErrBadVVKey == "failed to obtain BLS public key for verification vector"
ErrStoreIndex == "failed to store account index"
ErrStoreAccount == "failed to store account"
ErrConfirmName == "failed to confirm account when retrieving by name"
ErrConfirmID == "failed to confirm account when retrieveing by ID"
ErrNoAccountName == "no account with name"
ErrRetrieve == "failed to retrieve account"
ErrUnmarshal == "failed to unmarshal account"
ErrAccountLocked == "cannot sign when account is locked"
ErrKeyLocked == "cannot provide private key when account is locked"
ErrPassphrase == "incorrect passphrase"
ErrKeyMismatch == "secret key does not correspond to public key"
ErrNoBatch == "no batch to decrypt"
ErrBatchDecrypt == "failed to decrypt data"
ErrBatchKey == "invalid private key"
ErrBatchStore == "store cannot store batches"
ErrBatchUnlock == "unable to decrypt account with supplied passphrases"
ErrWalletExists == "wallet already exists"
ErrWalletMissing == "wallet does not exist"
ErrIndexCorrupt == "wallet index corrupt: failed to deserialize index"
ErrWalletCorrupt == "wallet corrupt"
ErrExportAccount == "failed to deserialize account"
ErrImportDecrypt == "failed to decrypt wallet"
ErrImportUnmarshal == "failed to unmarshal wallet"
ErrImportAccount == "failed to store account"

ValidationErrors ==
    {ErrNameMissing, ErrNameInvalid, ErrKeyMissing, ErrVVMissing, ErrParticipantsMissing,
     ErrRatio, ErrVVInvalid, ErrWalletLocked, ErrExists}
PersistErrors == {ErrStoreIndex, ErrStoreAccount, ErrConfirmName, ErrConfirmID}

\* ------------------------------------------------------------------ state

VARIABLES
    store,      \* the Store: wallet record, index record, account records, batch record
    open,       \* a wallet instance exists (CreateWallet or OpenWallet returned one)
    w,          \* the wallet instance: unlocked, index, batch, accounts, batchDecrypted
    heap,       \* the account objects of the instance; a reference is a position
    nextID,     \* the next fresh account UUID
    lastOp,     \* the last call and its result
    lastLocker, \* the most recent Lock/Unlock call on the wallet instance
    input,      \* SpecInputs: the import input under test (NoInput in Spec)
    dump,       \* SpecExport: the last export, as its holder keeps it outside any Store
    nextWalletID, \* the next fresh wallet UUID
    batchAtOpen, \* the batch record the Store held when the instance was made
    threads     \* SpecThreads: the threads that share the instance, their locks and positions

vars == <<store, open, w, heap, nextID, lastOp, lastLocker, input, dump, nextWalletID, batchAtOpen, threads>>

\* What the calls on one wallet instance leave alone.
others == <<input, dump, nextWalletID, batchAtOpen, threads>>

\* ------------------------------------------------------------------ helpers

RECURSIVE SeqOfSet(_)
SeqOfSet(S) == IF S = {} THEN <<>> ELSE LET x == CHOOSE y \in S : TRUE IN <<x>> \o SeqOfSet(S \ {x})

\* All orders in which the elements of a set may be enumerated.
RECURSIVE Orders(_)
Orders(S) ==
    IF S = {} THEN {<<>>}
    ELSE UNION {{<<x>> \o t : t \in Orders(S \ {x})} : x \in S}

Min(S) == CHOOSE x \in S : \A y \in S : x <= y

\* ------------------------------------------------------------------ BLS keys

BLSPrivateKeyFromBytesOK(b) == Len(b) = KeyLen /\ b # ZeroKey
BLSPublicKeyFromBytesOK(b) == b # 0
PublicKey(sk) == 10 + sk[KeyLen]

\* ------------------------------------------------------------------ Encryptor

NilCrypto == [nil |-> TRUE, secret |-> <<>>, passphrase |-> ""]
Encrypt(secret, passphrase) == [nil |-> FALSE, secret |-> secret, passphrase |-> passphrase]
DecryptOK(crypto, passphrase) == ~crypto.nil /\ crypto.passphrase = passphrase
EncryptorVersion == 4

\* ------------------------------------------------------------------ index

\* The indexer keeps one map per direction; Add sets both, Remove deletes both.
IndexNew == [byName |-> <<>>, byID |-> <<>>]
IndexAdd(ix, id, name) ==
    [byName |-> (name :> id) @@ ix.byName, byID |-> (id :> name) @@ ix.byID]
IndexRemove(ix, id, name) ==
    [byName |-> [n \in DOMAIN ix.byName \ {name} |-> ix.byName[n]],
     byID |-> [i \in DOMAIN ix.byID \ {id} |-> ix.byID[i]]]
IndexHasName(ix, name) == name \in DOMAIN ix.byName
IndexID(ix, name) == ix.byName[name]

\* The serialized index is the list of {uuid, name} entries of the name map.
IndexSerialize(ix) == {[uuid |-> ix.byName[n], name |-> n] : n \in DOMAIN ix.byName}

RECURSIVE IndexAddAll(_, _)
IndexAddAll(ix, entries) ==
    IF entries = <<>> THEN ix
    ELSE IndexAddAll(IndexAdd(ix, Head(entries).uuid, Head(entries).name), Tail(entries))

IndexDeserialize(data) == IndexAddAll(IndexNew, SeqOfSet(data))

\* ------------------------------------------------------------------ wire formats

\* fmt.Sprintf("%x", bytes): lowercase hex without prefix; reading trims an
\* optional "0x" and decodes.
HexEncode(b) == [prefix |-> FALSE, digits |-> b]
HexDecode(h) == h.digits
\* fmt.Sprintf("%d", k) and strconv.ParseUint(k, 10, 64).
DecEncode(k) == [decimal |-> k]
DecDecode(d) == d.decimal

\* wallet.MarshalJSON
MarshalWallet(id, name) == [uuid |-> id, name |-> name, version |-> 1, type |-> walletType]
\* wallet.UnmarshalJSON: the record is one of a wallet of this type.
UnmarshalWalletOK(rec) == rec.type = walletType

\* account.MarshalJSON
MarshalAccount(a) ==
    [uuid |-> a.id,
     name |-> a.name,
     pubkey |-> HexEncode(a.publicKey),
     verificationvector |-> [i \in DOMAIN a.verificationVector |-> HexEncode(a.verificationVector[i])],
     signing_threshold |-> a.signingThreshold,
     participants |-> {DecEncode(k) : k \in a.participants},
     crypto |-> a.crypto,
     version |-> a.version]

\* account.UnmarshalJSON: the error of the first field that does not parse,
\* or ErrNone.
UnmarshalAccountErr(rec) ==
    IF ~BLSPublicKeyFromBytesOK(HexDecode(rec.pubkey)) THEN "failed to obtain BLS public key"
    ELSE IF \E i \in DOMAIN rec.verificationvector :
                ~BLSPublicKeyFromBytesOK(HexDecode(rec.verificationvector[i]))
        THEN "failed to obtain BLS public key for verification fector element"
    ELSE IF rec.signing_threshold <= Cardinality(rec.participants) \div 2
        THEN "account signing threshold too low"
    ELSE IF rec.crypto.nil THEN "account crypto missing"
    ELSE IF rec.version # 4 THEN "unsupported keystore version"
    ELSE ErrNone

\* deserializeAccount: the account object of a record that parses; it is locked.
deserializeAccount(rec) ==
    [id |-> rec.uuid,
     name |-> rec.name,
     publicKey |-> HexDecode(rec.pubkey),
     verificationVector |-> [i \in DOMAIN rec.verificationvector |-> HexDecode(rec.verificationvector[i])],
     signingThreshold |-> rec.signing_threshold,
     participants |-> {DecDecode(d) : d \in rec.participants},
     crypto |-> rec.crypto,
     secretKey |-> <<>>,
     version |-> rec.version]

\* ------------------------------------------------------------------ Store

NoBatchRecord == [present |-> FALSE, entries |-> <<>>, crypto |-> NilCrypto]
NoIndexRecord == [present |-> FALSE, data |-> {}, valid |-> TRUE]

StoreHasWallet(S, name) == \E r \in S.wallets : r.name = name
\* RetrieveWallet(name): the records it may give (one, unless two wallets
\* have been stored under one name).
StoreWalletRecords(S, name) == {r \in S.wallets : r.name = name}
\* StoreWallet writes the record under the wallet's ID.
StoreWallet(S, rec) == [S EXCEPT !.wallets = {r \in S.wallets : r.uuid # rec.uuid} \cup {rec}]
StoreHasAccount(S, id) == \E r \in S.accounts : r.uuid = id
StoreAccountRecord(S, id) == CHOOSE r \in S.accounts : r.uuid = id
\* StoreAccount writes the record under (walletID, accountID).
StoreAccount(S, rec) ==
    [S EXCEPT !.accounts = {r \in S.accounts : r.uuid # rec.uuid} \cup {rec}]
\* indexer.Deserialize fails on an index record that is no index.
IndexCorrupt(S) == S.index.present /\ ~S.index.valid
\* storeAccountsIndex: serialize the index and write it.
storeAccountsIndex(S, ix) ==
    [S EXCEPT !.index = [present |-> TRUE, data |-> IndexSerialize(ix), valid |-> TRUE]]

\* ------------------------------------------------------------------ account cache

\* w.accounts[id] = a: the cache maps the ID to the object's place in the heap.
\* An object the cache lets go of is released by its holders, so the new
\* object takes its place.
CachePut(W, H, a) ==
    IF a.id \in DOMAIN W.accounts
        THEN [w |-> W, heap |-> [H EXCEPT ![W.accounts[a.id]] = a], ref |-> W.accounts[a.id]]
    ELSE [w |-> [W EXCEPT !.accounts = (a.id :> Len(H) + 1) @@ W.accounts],
          heap |-> Append(H, a), ref |-> Len(H) + 1]

\* ------------------------------------------------------------------ batch

NilBatch == [set |-> FALSE, entries |-> <<>>, crypto |-> NilCrypto]
MarkerBatch == [set |-> TRUE, entries |-> <<>>, crypto |-> NilCrypto]

\* The account object retrieveAccountsBatch makes of one batch entry.
BatchAccount(e) ==
    [id |-> e.uuid,
     name |-> e.name,
     publicKey |-> HexDecode(e.pubkey),
     verificationVector |-> [i \in DOMAIN e.verification_vector |-> HexDecode(e.verification_vector[i])],
     signingThreshold |-> DecDecode(e.signing_threshold),
     participants |-> {DecDecode(d) : d \in e.participants},
     crypto |-> NilCrypto,
     secretKey |-> <<>>,
     version |-> 1]

BatchEntryOK(e) ==
    /\ BLSPublicKeyFromBytesOK(HexDecode(e.pubkey))
    /\ \A i \in DOMAIN e.verification_vector : BLSPublicKeyFromBytesOK(HexDecode(e.verification_vector[i]))

\* The loop of retrieveAccountsBatch: one account per entry into w.accounts,
\* stopping at the first entry that does not parse.
RECURSIVE Materialize(_, _, _)
Materialize(W, H, entries) ==
    IF entries = <<>> \/ ~BatchEntryOK(Head(entries)) THEN [w |-> W, heap |-> H]
    ELSE LET c == CachePut(W, H, BatchAccount(Head(entries)))
         IN Materialize(c.w, c.heap, Tail(entries))

\* retrieveAccountsBatch: the marker is placed first; a failed RetrieveBatch
\* leaves it in place.
retrieveAccountsBatch(W, H, S, fault) ==
    IF W.batch.set THEN [w |-> W, heap |-> H]
    ELSE IF ~S.batchCapable \/ ~S.batch.present \/ fault
        THEN [w |-> [W EXCEPT !.batch = MarkerBatch], heap |-> H]
    ELSE Materialize([W EXCEPT !.batch = [set |-> TRUE, entries |-> S.batch.entries,
                                          crypto |-> S.batch.crypto]],
                     H, S.batch.entries)

retrieveBatchIfRequired(W, H, S, fault) ==
    IF ~W.batch.set /\ S.batchCapable THEN retrieveAccountsBatch(W, H, S, fault)
    ELSE [w |-> W, heap |-> H]

BatchInUse(W) == W.batch.set /\ Len(W.batch.entries) > 0

\* ------------------------------------------------------------------ lookups

\* The result of a lookup that has put the account it fetched in the cache.
Found(c) == [w |-> c.w, heap |-> c.heap, err |-> ErrNone, ref |-> c.ref]

\* AccountByID that looks in the cache only once a batch is in use.
AccountByIDFetchBatchOnly(r, S, id, rfault) ==
    IF BatchInUse(r.w) /\ id \in DOMAIN r.w.accounts
        THEN [w |-> r.w, heap |-> r.heap, err |-> ErrNone, ref |-> r.w.accounts[id]]
    ELSE IF BatchInUse(r.w) \/ rfault \/ ~StoreHasAccount(S, id)
        THEN [w |-> r.w, heap |-> r.heap, err |-> ErrRetrieve, ref |-> 0]
    ELSE IF UnmarshalAccountErr(StoreAccountRecord(S, id)) # ErrNone
        THEN [w |-> r.w, heap |-> r.heap, err |-> ErrUnmarshal, ref |-> 0]
    ELSE Found(CachePut(r.w, r.heap, deserializeAccount(StoreAccountRecord(S, id))))

\* AccountByID once retrieveBatchIfRequired has returned r = [w, heap]: the
\* batch-derived account, or the record fetched from the Store and cached.
\* rfault: RetrieveAccount fails.
AccountByIDFetch(r, S, id, rfault) ==
    IF BatchInUse(r.w) /\ id \in DOMAIN r.w.accounts
        THEN [w |-> r.w, heap |-> r.heap, err |-> ErrNone, ref |-> r.w.accounts[id]]
    ELSE IF rfault \/ ~StoreHasAccount(S, id)
        THEN [w |-> r.w, heap |-> r.heap, err |-> ErrRetrieve, ref |-> 0]
    ELSE IF UnmarshalAccountErr(StoreAccountRecord(S, id)) # ErrNone
        THEN [w |-> r.w, heap |-> r.heap, err |-> ErrUnmarshal, ref |-> 0]
    ELSE Found(CachePut(r.w, r.heap, deserializeAccount(StoreAccountRecord(S, id))))

\* AccountByID: [w, heap, err, ref].  bfault: RetrieveBatch fails.
AccountByIDOp(W, H, S, id, bfault, rfault) ==
    AccountByIDFetch(retrieveBatchIfRequired(W, H, S, bfault), S, id, rfault)

\* AccountByName: the index resolves the name, AccountByID the account.
AccountByNameOp(W, H, S, name, bfault, rfault) ==
    IF ~IndexHasName(W.index, name)
        THEN [w |-> W, heap |-> H, err |-> ErrNoAccountName, ref |-> 0]
    ELSE AccountByIDOp(W, H, S, IndexID(W.index, name), bfault, rfault)

\* Accounts once retrieveBatchIfRequired has returned r = [w, heap]: the
\* cache when a batch is in use, else every record of the Store that parses.
\* yield is the set of {uuid, name} of the accounts sent on the channel, sent
\* their number.
AccountsYield(r, S) ==
    IF BatchInUse(r.w)
        THEN [w |-> r.w, heap |-> r.heap,
              yield |-> {[uuid |-> id, name |-> r.heap[r.w.accounts[id]].name] : id \in DOMAIN r.w.accounts},
              sent |-> Cardinality(DOMAIN r.w.accounts)]
    ELSE [w |-> r.w, heap |-> r.heap,
          yield |-> {[uuid |-> rec.uuid, name |-> rec.name] :
                        rec \in {x \in S.accounts : UnmarshalAccountErr(x) = ErrNone}},
          sent |-> Cardinality({x \in S.accounts : UnmarshalAccountErr(x) = ErrNone})]

\* Accounts: [w, heap, yield].
AccountsOp(W, H, S, bfault) == AccountsYield(retrieveBatchIfRequired(W, H, S, bfault), S)

\* ------------------------------------------------------------------ account

\* account.Unlock with the key stored before it is compared with the public key.
UnlockOpStoresFirst(a, passphrase) ==
    IF a.secretKey # <<>> THEN [err |-> ErrNone, account |-> a]
    ELSE IF ~DecryptOK(a.crypto, passphrase) THEN [err |-> ErrPassphrase, account |-> a]
    ELSE IF ~BLSPrivateKeyFromBytesOK(a.crypto.secret) THEN [err |-> ErrBadPrivateKey, account |-> a]
    ELSE IF PublicKey(a.crypto.secret) # a.publicKey
        THEN [err |-> ErrKeyMismatch, account |-> [a EXCEPT !.secretKey = a.crypto.secret]]
    ELSE [err |-> ErrNone, account |-> [a EXCEPT !.secretKey = a.crypto.secret]]

\* account.Unlock without the comparison of the public keys.
UnlockOpNoCompare(a, passphrase) ==
    IF a.secretKey # <<>> THEN [err |-> ErrNone, account |-> a]
    ELSE IF ~DecryptOK(a.crypto, passphrase) THEN [err |-> ErrPassphrase, account |-> a]
    ELSE IF ~BLSPrivateKeyFromBytesOK(a.crypto.secret) THEN [err |-> ErrBadPrivateKey, account |-> a]
    ELSE [err |-> ErrNone, account |-> [a EXCEPT !.secretKey = a.crypto.secret]]

\* account.Unlock that decrypts whether the account holds its key or not.
UnlockOpRevalidates(a, passphrase) ==
    IF ~DecryptOK(a.crypto, passphrase) THEN [err |-> ErrPassphrase, account |-> a]
    ELSE IF ~BLSPrivateKeyFromBytesOK(a.crypto.secret) THEN [err |-> ErrBadPrivateKey, account |-> a]
    ELSE IF PublicKey(a.crypto.secret) # a.publicKey THEN [err |-> ErrKeyMismatch, account |-> a]
    ELSE [err |-> ErrNone, account |-> [a EXCEPT !.secretKey = a.crypto.secret]]

\* account.Unlock that reports success before it has stored the key.
UnlockOpForgetsKey(a, passphrase) ==
    IF a.secretKey # <<>> THEN [err |-> ErrNone, account |-> a]
    ELSE IF ~DecryptOK(a.crypto, passphrase) THEN [err |-> ErrPassphrase, account |-> a]
    ELSE IF ~BLSPrivateKeyFromBytesOK(a.crypto.secret) THEN [err |-> ErrBadPrivateKey, account |-> a]
    ELSE IF PublicKey(a.crypto.secret) # a.publicKey THEN [err |-> ErrKeyMismatch, account |-> a]
    ELSE [err |-> ErrNone, account |-> a]

\* account.Unlock: [err, account].
UnlockOp(a, passphrase) ==
    IF a.secretKey # <<>> THEN [err |-> ErrNone, account |-> a]
    ELSE IF ~DecryptOK(a.crypto, passphrase) THEN [err |-> ErrPassphrase, account |-> a]
    ELSE IF ~BLSPrivateKeyFromBytesOK(a.crypto.secret) THEN [err |-> ErrBadPrivateKey, account |-> a]
    ELSE IF PublicKey(a.crypto.secret) # a.publicKey THEN [err |-> ErrKeyMismatch, account |-> a]
    ELSE [err |-> ErrNone, account |-> [a EXCEPT !.secretKey = a.crypto.secret]]

\* account.Lock that leaves the key in place.
LockOpKeepsKey(a) == a

\* account.Lock
LockOp(a) == [a EXCEPT !.secretKey = <<>>]

\* account.Sign and account.PrivateKey: the error they return.
SignErr(a) == IF a.secretKey = <<>> THEN ErrAccountLocked ELSE ErrNone
PrivateKeyErr(a) == IF a.secretKey = <<>> THEN ErrKeyLocked ELSE ErrNone

\* ------------------------------------------------------------------ wallet

\* No export has been made.
NoDump == [present |-> FALSE, passphrase |-> "", wallet |-> MarshalWallet(WalletUUID(0), ""),
           accounts |-> <<>>, exported |-> {}]

newWallet ==
    [id |-> WalletUUID(0), name |-> "", unlocked |-> FALSE, index |-> IndexNew, batch |-> NilBatch, accounts |-> <<>>,
     batchDecrypted |-> FALSE]

Op(op, err, id, ref) == [op |-> op, err |-> err, id |-> id, ref |-> ref, yield |-> {}, sent |-> 0]

\* The RetrieveBatch outcomes that can differ: a fault matters only when the
\* instance has not fetched yet and the Store holds a batch.
BatchFaults == IF ~w.batch.set /\ store.batchCapable /\ store.batch.present THEN BOOLEAN ELSE {FALSE}

\* A Store nothing has been written to, with or without support for batches.
EmptyStores ==
    {[wallets |-> {}, index |-> NoIndexRecord, accounts |-> {}, batch |-> NoBatchRecord,
      batchCapable |-> c] : c \in BOOLEAN}

\* The threads of SpecThreads; none runs in the other specifications.
Threads == 1..MaxThreads

\* No thread has been started: both locks are free (0).
NoThreads ==
    [running |-> FALSE, fatal |-> FALSE, failed |-> FALSE,
     mutex |-> 0, batchMutex |-> 0, retrieveBatchCalls |-> 0,
     call |-> [t \in Threads |-> [kind |-> "none", id |-> 0, name |-> NoName, in |-> NoInput]],
     pc |-> [t \in Threads |-> "done"],
     ret |-> [t \in Threads |-> "done"],
     lookup |-> [t \in Threads |-> 0],
     id |-> [t \in Threads |-> 0],
     err |-> [t \in Threads |-> ErrNone],
     ref |-> [t \in Threads |-> 0],
     yield |-> [t \in Threads |-> {}],
     waited |-> [t \in Threads |-> FALSE],
     amutex |-> <<>>]

InitWallet ==
    /\ store \in EmptyStores
    /\ open = FALSE
    /\ w = newWallet
    /\ heap = <<>>
    /\ nextID = 1
    /\ lastOp = Op("none", ErrNone, 0, 0)
    /\ lastLocker = "none"
    /\ dump = NoDump
    /\ nextWalletID = 1
    /\ batchAtOpen = NoBatchRecord
    /\ threads = NoThreads

Init == InitWallet /\ input = NoInput

\* CreateWallet that does not look for a wallet of the name first.
CreateWalletNoLookup(name) ==
    /\ nextWalletID <= MaxWallets
    /\ store' = StoreWallet(storeAccountsIndex(store, IndexNew),
                            MarshalWallet(WalletUUID(nextWalletID), name))
    /\ open' = TRUE
    /\ w' = [newWallet EXCEPT !.id = WalletUUID(nextWalletID), !.name = name]
    /\ nextWalletID' = nextWalletID + 1
    /\ heap' = <<>>
    /\ lastLocker' = "none"
    /\ lastOp' = Op("CreateWallet", ErrNone, 0, 0)
    /\ batchAtOpen' = store.batch
    /\ UNCHANGED <<nextID, input, dump, threads>>

\* CreateWallet: storeWallet writes the (empty) index, then the wallet record.
CreateWallet(name) ==
    IF StoreHasWallet(store, name)
        THEN /\ lastOp' = Op("CreateWallet", ErrWalletExists, 0, 0)
             /\ UNCHANGED <<store, open, w, heap, nextID, lastLocker, others>>
    ELSE /\ nextWalletID <= MaxWallets
         /\ store' = StoreWallet(storeAccountsIndex(store, IndexNew),
                                 MarshalWallet(WalletUUID(nextWalletID), name))
         /\ open' = TRUE
         /\ w' = [newWallet EXCEPT !.id = WalletUUID(nextWalletID), !.name = name]
         /\ nextWalletID' = nextWalletID + 1
         /\ heap' = <<>>
         /\ lastLocker' = "none"
         /\ lastOp' = Op("CreateWallet", ErrNone, 0, 0)
         /\ batchAtOpen' = store.batch
         /\ UNCHANGED <<nextID, input, dump, threads>>

\* The index rebuilt from what Accounts() sent (r = [w, heap, yield], in the
\* order given) and stored.
RebuiltIndex(r, S, order) ==
    [w |-> [r.w EXCEPT !.index = IndexAddAll(IndexNew, order)], heap |-> r.heap,
     store |-> storeAccountsIndex(S, IndexAddAll(IndexNew, order))]

\* retrieveAccountsIndex: [w, heap, store] for a missing index record (rebuilt
\* from Accounts(), then stored) or a present one.
retrieveAccountsIndex(W, H, S, bfault, order) ==
    IF ~S.index.present
        THEN RebuiltIndex(AccountsOp([W EXCEPT !.index = IndexNew], H, S, bfault), S, order)
    ELSE [w |-> [W EXCEPT !.index = IndexDeserialize(S.index.data)], heap |-> H, store |-> S]

\* wallet.UnmarshalJSON into a new wallet: the ID and the name of the record.
UnmarshalWallet(rec) == [newWallet EXCEPT !.id = rec.uuid, !.name = rec.name]

\* The outcomes of RetrieveBatch and the orders of the Accounts() channel that
\* an OpenWallet on Store S may meet: they matter when the index is rebuilt.
OpenBatchFaults(S) == IF S.batchCapable /\ S.batch.present /\ ~S.index.present THEN BOOLEAN ELSE {FALSE}
OpenOrders(S, bfault) ==
    IF S.index.present THEN {<<>>} ELSE Orders(AccountsOp(newWallet, <<>>, S, bfault).yield)

\* The instance OpenWallet returns, r = [w, heap, store] with the index loaded.
Opened(r) ==
    /\ store' = r.store
    /\ w' = r.w
    /\ heap' = r.heap
    /\ open' = TRUE
    /\ lastLocker' = "none"
    /\ lastOp' = Op("OpenWallet", ErrNone, 0, 0)
    /\ batchAtOpen' = store.batch
    /\ UNCHANGED <<nextID, input, dump, nextWalletID, threads>>

\* OpenWallet / DeserializeWallet: a new, locked instance with the index loaded.
OpenWallet(name) ==
    IF ~StoreHasWallet(store, name)
        THEN /\ lastOp' = Op("OpenWallet", ErrWalletMissing, 0, 0)
             /\ UNCHANGED <<store, open, w, heap, nextID, lastLocker, others>>
    ELSE \E rec \in StoreWalletRecords(store, name) :
         IF ~UnmarshalWalletOK(rec)
             THEN /\ lastOp' = Op("OpenWallet", ErrWalletCorrupt, 0, 0)
                  /\ UNCHANGED <<store, open, w, heap, nextID, lastLocker, others>>
         ELSE IF IndexCorrupt(store)
             THEN /\ lastOp' = Op("OpenWallet", ErrIndexCorrupt, 0, 0)
                  /\ UNCHANGED <<store, open, w, heap, nextID, lastLocker, others>>
         ELSE \E bfault \in OpenBatchFaults(store) :
              \E order \in OpenOrders(store, bfault) :
                 Opened(retrieveAccountsIndex(UnmarshalWallet(rec), <<>>, store, bfault, order))

\* wallet.Lock that leaves the wallet as it is.
WalletLockKeepsFlag ==
    /\ open
    /\ lastLocker' = "Lock"
    /\ lastOp' = Op("WalletLock", ErrNone, 0, 0)
    /\ UNCHANGED <<store, open, w, heap, nextID, others>>

\* wallet.Lock and wallet.Unlock: the passphrase is not looked at.
WalletLock ==
    /\ open
    /\ w' = [w EXCEPT !.unlocked = FALSE]
    /\ lastLocker' = "Lock"
    /\ lastOp' = Op("WalletLock", ErrNone, 0, 0)
    /\ UNCHANGED <<store, open, heap, nextID, others>>

WalletUnlock(passphrase) ==
    /\ open
    /\ w' = [w EXCEPT !.unlocked = TRUE]
    /\ lastLocker' = "Unlock"
    /\ lastOp' = Op("WalletUnlock", ErrNone, 0, 0)
    /\ UNCHANGED <<store, open, heap, nextID, others>>

\* The index record is removed from the Store from outside (a deleted file)
\* between two runs of the program: the instance is gone.
DeleteIndex ==
    /\ store.index.present
    /\ store' = [store EXCEPT !.index = NoIndexRecord]
    /\ open' = FALSE
    /\ w' = newWallet
    /\ heap' = <<>>
    /\ lastLocker' = "none"
    /\ lastOp' = [Op("DeleteIndex", ErrNone, 0, 0) EXCEPT !.yield = store.index.data]
    /\ batchAtOpen' = NoBatchRecord
    /\ UNCHANGED <<nextID, input, dump, nextWalletID, threads>>

\* The index record is damaged from outside (a truncated file) between two
\* runs of the program: it is there, and it is no index.
CorruptIndex ==
    /\ store.index.present /\ store.index.valid
    /\ store' = [store EXCEPT !.index.valid = FALSE]
    /\ open' = FALSE
    /\ w' = newWallet
    /\ heap' = <<>>
    /\ lastLocker' = "none"
    /\ lastOp' = Op("CorruptIndex", ErrNone, 0, 0)
    /\ batchAtOpen' = NoBatchRecord
    /\ UNCHANGED <<nextID, input, dump, nextWalletID, threads>>

\* ------------------------------------------------------------------ import

\* The input checks with the vector length looked at before the ratio.
ImportInputErrSwapped(W, in) ==
    IF in.name = NoName THEN ErrNameMissing
    ELSE IF Head(in.name) = "_" THEN ErrNameInvalid
    ELSE IF Len(in.privatekey) = 0 THEN ErrKeyMissing
    ELSE IF Len(in.verificationVector) = 0 THEN ErrVVMissing
    ELSE IF Cardinality(in.participants) = 0 THEN ErrParticipantsMissing
    ELSE IF Len(in.verificationVector) # in.signingThreshold THEN ErrVVInvalid
    ELSE IF in.signingThreshold <= Cardinality(in.participants) \div 2 THEN ErrRatio
    ELSE IF ~W.unlocked THEN ErrWalletLocked
    ELSE ErrNone

\* The input checks with a threshold of exactly half the participants let through.
ImportInputErrHalf(W, in) ==
    IF in.name = NoName THEN ErrNameMissing
    ELSE IF Head(in.name) = "_" THEN ErrNameInvalid
    ELSE IF Len(in.privatekey) = 0 THEN ErrKeyMissing
    ELSE IF Len(in.verificationVector) = 0 THEN ErrVVMissing
    ELSE IF Cardinality(in.participants) = 0 THEN ErrParticipantsMissing
    ELSE IF in.signingThreshold < Cardinality(in.participants) \div 2 THEN ErrRatio
    ELSE IF Len(in.verificationVector) # in.signingThreshold THEN ErrVVInvalid
    ELSE IF ~W.unlocked THEN ErrWalletLocked
    ELSE ErrNone

\* The input checks of ImportDistributedAccount up to the wallet lock, in the
\* order of the code: the error of the first that fails, or ErrNone.
ImportInputErr(W, in) ==
    IF in.name = NoName THEN ErrNameMissing
    ELSE IF Head(in.name) = "_" THEN ErrNameInvalid
    ELSE IF Len(in.privatekey) = 0 THEN ErrKeyMissing
    ELSE IF Len(in.verificationVector) = 0 THEN ErrVVMissing
    ELSE IF Cardinality(in.participants) = 0 THEN ErrParticipantsMissing
    ELSE IF in.signingThreshold <= Cardinality(in.participants) \div 2 THEN ErrRatio
    ELSE IF Len(in.verificationVector) # in.signingThreshold THEN ErrVVInvalid
    ELSE IF ~W.unlocked THEN ErrWalletLocked
    ELSE ErrNone

\* The first verification vector entry that is no public key, 0 if all are.
FirstBadVV(vv) ==
    IF \E i \in DOMAIN vv : ~BLSPublicKeyFromBytesOK(vv[i])
        THEN Min({i \in DOMAIN vv : ~BLSPublicKeyFromBytesOK(vv[i])})
    ELSE 0

\* The account object of import with the parsed key kept in it.
ImportedAccountKeepsKey(id, in) ==
    [id |-> id,
     name |-> in.name,
     publicKey |-> PublicKey(in.privatekey),
     verificationVector |-> in.verificationVector,
     signingThreshold |-> in.signingThreshold,
     participants |-> in.participants,
     crypto |-> Encrypt(in.privatekey, in.passphrase),
     secretKey |-> in.privatekey,
     version |-> EncryptorVersion]

\* The account object import builds (locked: no secret key is kept).
ImportedAccount(id, in) ==
    [id |-> id,
     name |-> in.name,
     publicKey |-> PublicKey(in.privatekey),
     verificationVector |-> in.verificationVector,
     signingThreshold |-> in.signingThreshold,
     participants |-> in.participants,
     crypto |-> Encrypt(in.privatekey, in.passphrase),
     secretKey |-> <<>>,
     version |-> EncryptorVersion]

\* The end of account.storeAccount: m is the lookup by ID.
confirmedByID(m, S) ==
    [w |-> m.w, heap |-> m.heap, store |-> S,
     err |-> IF m.err # ErrNone THEN ErrConfirmID ELSE ErrNone]

\* account.storeAccount after the lookup by name n: the lookup by ID.
confirmedByName(n, S, a, bfault, fault) ==
    IF n.err # ErrNone
        THEN [w |-> n.w, heap |-> n.heap, store |-> S, err |-> ErrConfirmName]
    ELSE confirmedByID(AccountByIDOp(n.w, n.heap, S, a.id, bfault, fault = "RetrieveByID"), S)

\* account.storeAccount after the index is stored: the record is written and
\* looked up by name.
storeAccountRecord(W, H, S, a, bfault, fault) ==
    IF fault = "StoreAccount"
        THEN [w |-> W, heap |-> H, store |-> S, err |-> ErrStoreAccount]
    ELSE confirmedByName(AccountByNameOp(W, H, StoreAccount(S, MarshalAccount(a)), a.name, bfault,
                                         fault = "RetrieveByName"),
                         StoreAccount(S, MarshalAccount(a)), a, bfault, fault)

\* account.storeAccount on the wallet with the index already updated:
\* [w, heap, store, err].  The two confirmation lookups cache what they fetch.
storeAccountOp(W, H, S, a, bfault, fault) ==
    IF fault = "StoreAccountsIndex"
        THEN [w |-> W, heap |-> H, store |-> S, err |-> ErrStoreIndex]
    ELSE storeAccountRecord(W, H, storeAccountsIndex(S, W.index), a, bfault, fault)

\* The import's account in the cache: what a successful import returns.
importCached(c, S, id) ==
    [w |-> c.w, heap |-> c.heap, store |-> S, err |-> ErrNone, id |-> id, ref |-> c.ref]

\* The end of ImportDistributedAccount, r the result of storeAccount: the
\* index entry is removed again on an error, else the account is cached.
importStored(r, a) ==
    IF r.err # ErrNone
        THEN [w |-> [r.w EXCEPT !.index = IndexRemove(r.w.index, a.id, a.name)],
              heap |-> r.heap, store |-> r.store, err |-> r.err, id |-> a.id, ref |-> 0]
    ELSE importCached(CachePut(r.w, r.heap, a), r.store, a.id)

\* The part of ImportDistributedAccount after the input checks and the name
\* lookup: [w, heap, store, err, id, ref].
importAccountOp(W, H, S, id, in, bfault, fault) ==
    IF ~BLSPrivateKeyFromBytesOK(in.privatekey)
        THEN [w |-> W, heap |-> H, store |-> S, err |-> ErrBadPrivateKey, id |-> 0, ref |-> 0]
    ELSE IF FirstBadVV(in.verificationVector) # 0
        THEN [w |-> W, heap |-> H, store |-> S, err |-> ErrBadVVKey, id |-> 0, ref |-> 0]
    ELSE importStored(storeAccountOp([W EXCEPT !.index = IndexAdd(W.index, id, in.name)], H, S,
                                     ImportedAccount(id, in), bfault, fault),
                      ImportedAccount(id, in))

\* ImportDistributedAccount returns r, the result of importAccountOp.
importReturn(r, fault) ==
    /\ r.id = 0 => fault = "none"
    /\ w' = r.w
    /\ heap' = r.heap
    /\ store' = r.store
    /\ nextID' = IF r.store # store THEN nextID + 1 ELSE nextID
    /\ lastOp' = Op("ImportDistributedAccount", r.err, r.id, r.ref)
    /\ UNCHANGED <<open, lastLocker, others>>

\* ImportDistributedAccount after the lookup of the name, c: the name exists
\* when the lookup returned no error.
importChecked(c, in, bfault, fault) ==
    IF c.err = ErrNone
        THEN /\ fault = "none"
             /\ w' = c.w
             /\ heap' = c.heap
             /\ lastOp' = Op("ImportDistributedAccount", ErrExists, 0, 0)
             /\ UNCHANGED <<store, open, nextID, lastLocker, others>>
    ELSE /\ nextID <= MaxAccounts
         /\ importReturn(importAccountOp(c.w, c.heap, store, nextID, in, bfault, fault), fault)

\* ImportDistributedAccount
ImportDistributedAccount(in, bfault, fault) ==
    /\ open
    /\ IF ImportInputErr(w, in) # ErrNone
           THEN /\ fault = "none" /\ bfault = FALSE
                /\ lastOp' = Op("ImportDistributedAccount", ImportInputErr(w, in), 0, 0)
                /\ UNCHANGED <<store, open, w, heap, nextID, lastLocker, others>>
       ELSE /\ fault = "RetrieveExisting" => IndexHasName(w.index, in.name)
            /\ importChecked(AccountByNameOp(w, heap, store, in.name, bfault, fault = "RetrieveExisting"),
                             in, bfault, fault)

\* ------------------------------------------------------------------ lookups (calls)

\* AccountByID returns r.
AccountByIDReturn(r, id) ==
    /\ w' = r.w
    /\ heap' = r.heap
    /\ lastOp' = Op("AccountByID", r.err, IF r.err = ErrNone THEN id ELSE 0, r.ref)
    /\ UNCHANGED <<store, open, nextID, lastLocker, others>>

AccountByID(id, bfault) ==
    /\ open
    /\ AccountByIDReturn(AccountByIDOp(w, heap, store, id, bfault, FALSE), id)

\* AccountByName returns r.
AccountByNameReturn(r) ==
    /\ w' = r.w
    /\ heap' = r.heap
    /\ lastOp' = Op("AccountByName", r.err, IF r.err = ErrNone THEN r.heap[r.ref].id ELSE 0, r.ref)
    /\ UNCHANGED <<store, open, nextID, lastLocker, others>>

AccountByName(name, bfault) ==
    /\ open
    /\ AccountByNameReturn(AccountByNameOp(w, heap, store, name, bfault, FALSE))

\* The channel of Accounts has delivered r.yield.
AccountsReturn(r) ==
    /\ w' = r.w
    /\ heap' = r.heap
    /\ lastOp' = [Op("Accounts", ErrNone, 0, 0) EXCEPT !.yield = r.yield, !.sent = r.sent]
    /\ UNCHANGED <<store, open, nextID, lastLocker, others>>

Accounts(bfault) ==
    /\ open
    /\ AccountsReturn(AccountsOp(w, heap, store, bfault))

\* ------------------------------------------------------------------ account (calls)

AccountLock(ref) ==
    /\ ref \in DOMAIN heap
    /\ heap' = [heap EXCEPT ![ref] = LockOp(@)]
    /\ lastOp' = Op("AccountLock", ErrNone, heap[ref].id, ref)
    /\ UNCHANGED <<store, open, w, nextID, lastLocker, others>>

AccountUnlock(ref, passphrase) ==
    /\ ref \in DOMAIN heap
    /\ LET r == UnlockOp(heap[ref], passphrase) IN
       /\ heap' = [heap EXCEPT ![ref] = r.account]
       /\ lastOp' = Op("AccountUnlock", r.err, heap[ref].id, ref)
    /\ UNCHANGED <<store, open, w, nextID, lastLocker, others>>

Sign(ref) ==
    /\ ref \in DOMAIN heap
    /\ lastOp' = Op("Sign", SignErr(heap[ref]), heap[ref].id, ref)
    /\ UNCHANGED <<store, open, w, heap, nextID, lastLocker, others>>

PrivateKey(ref) ==
    /\ ref \in DOMAIN heap
    /\ lastOp' = Op("PrivateKey", PrivateKeyErr(heap[ref]), heap[ref].id, ref)
    /\ UNCHANGED <<store, open, w, heap, nextID, lastLocker, others>>

\* ------------------------------------------------------------------ batch (calls)

\* The first candidate passphrase that unlocks the account, "" if none does.
RECURSIVE FirstUnlocking(_, _)
FirstUnlocking(a, passphrases) ==
    IF passphrases = <<>> THEN ""
    ELSE IF UnlockOp(a, Head(passphrases)).err = ErrNone THEN Head(passphrases)
    ELSE FirstUnlocking(a, Tail(passphrases))

\* The batch entry of an unlocked account.
BatchEntry(a) ==
    [uuid |-> a.id,
     name |-> a.name,
     verification_vector |-> [i \in DOMAIN a.verificationVector |-> HexEncode(a.verificationVector[i])],
     signing_threshold |-> DecEncode(a.signingThreshold),
     participants |-> {DecEncode(k) : k \in a.participants},
     pubkey |-> HexEncode(a.publicKey)]

\* The secret keys concatenated last account first.
RECURSIVE ConcatSecretsReversed(_)
ConcatSecretsReversed(accounts) ==
    IF accounts = <<>> THEN <<>> ELSE ConcatSecretsReversed(Tail(accounts)) \o Head(accounts).secretKey

RECURSIVE ConcatSecrets(_)
ConcatSecrets(accounts) ==
    IF accounts = <<>> THEN <<>> ELSE Head(accounts).secretKey \o ConcatSecrets(Tail(accounts))

\* BatchWallet over the account records in the order RetrieveAccounts gives
\* them: [err, batch].  Records that do not parse are skipped.
BatchWalletOp(S, records, passphrases, batchPassphrase) ==
    LET parsed == SelectSeq(records, LAMBDA rec : UnmarshalAccountErr(rec) = ErrNone)
        unlocked == [i \in DOMAIN parsed |->
                        UnlockOp(deserializeAccount(parsed[i]),
                                 FirstUnlocking(deserializeAccount(parsed[i]), passphrases))]
    IN IF \E i \in DOMAIN unlocked : unlocked[i].err # ErrNone
           THEN [err |-> ErrBatchUnlock, batch |-> S.batch]
       ELSE LET accounts == [i \in DOMAIN unlocked |-> unlocked[i].account] IN
            [err |-> ErrNone,
             batch |-> [present |-> TRUE,
                        entries |-> [i \in DOMAIN accounts |-> BatchEntry(accounts[i])],
                        crypto |-> Encrypt(ConcatSecrets(accounts), batchPassphrase)]]

\* BatchWallet that asks the Store for its batch support once the accounts
\* are unlocked.
BatchWalletChecksLate(passphrases, batchPassphrase, records) ==
    /\ open
    /\ LET r == BatchWalletOp(store, records, passphrases, batchPassphrase) IN
       IF r.err # ErrNone
           THEN lastOp' = Op("BatchWallet", r.err, 0, 0) /\ UNCHANGED store
       ELSE IF ~store.batchCapable
           THEN lastOp' = Op("BatchWallet", ErrBatchStore, 0, 0) /\ UNCHANGED store
       ELSE /\ store' = [store EXCEPT !.batch = r.batch]
            /\ lastOp' = Op("BatchWallet", ErrNone, 0, 0)
    /\ UNCHANGED <<open, w, heap, nextID, lastLocker, others>>

BatchWallet(passphrases, batchPassphrase, records) ==
    /\ open
    /\ IF ~store.batchCapable
           THEN /\ lastOp' = Op("BatchWallet", ErrBatchStore, 0, 0)
                /\ UNCHANGED store
       ELSE LET r == BatchWalletOp(store, records, passphrases, batchPassphrase) IN
            /\ store' = [store EXCEPT !.batch = r.batch]
            /\ lastOp' = Op("BatchWallet", r.err, 0, 0)
    /\ UNCHANGED <<open, w, heap, nextID, lastLocker, others>>

\* The loop of batchDecrypt from entry i on: [err, heap].  Keys set before an
\* entry fails stay set.
RECURSIVE batchDecryptLoop(_, _, _, _)
batchDecryptLoop(W, H, secretBytes, i) ==
    IF i > Len(W.batch.entries) THEN [err |-> ErrNone, heap |-> H]
    ELSE LET ref == W.accounts[W.batch.entries[i].uuid]
             slice == SubSeq(secretBytes, (i - 1) * KeyLen + 1, i * KeyLen)
         IN
    IF H[ref].secretKey # <<>> THEN batchDecryptLoop(W, H, secretBytes, i + 1)
    ELSE IF ~BLSPrivateKeyFromBytesOK(slice) THEN [err |-> ErrBatchKey, heap |-> H]
    ELSE IF PublicKey(slice) # H[ref].publicKey THEN [err |-> ErrKeyMismatch, heap |-> H]
    ELSE batchDecryptLoop(W, [H EXCEPT ![ref].secretKey = slice], secretBytes, i + 1)

\* wallet.batchDecrypt: [err, w, heap].
batchDecryptOp(W, H, passphrase) ==
    IF W.batchDecrypted THEN [err |-> ErrNone, w |-> W, heap |-> H]
    ELSE IF ~W.batch.set \/ W.batch.crypto.nil THEN [err |-> ErrNoBatch, w |-> W, heap |-> H]
    ELSE IF ~DecryptOK(W.batch.crypto, passphrase) THEN [err |-> ErrBatchDecrypt, w |-> W, heap |-> H]
    ELSE LET r == batchDecryptLoop(W, H, W.batch.crypto.secret, 1) IN
         IF r.err # ErrNone THEN [err |-> r.err, w |-> W, heap |-> r.heap]
         ELSE [err |-> ErrNone, w |-> [W EXCEPT !.batchDecrypted = TRUE], heap |-> r.heap]

batchDecrypt(passphrase) ==
    /\ open
    /\ \A i \in DOMAIN w.batch.entries : w.batch.entries[i].uuid \in DOMAIN w.accounts
    /\ LET r == batchDecryptOp(w, heap, passphrase) IN
       /\ w' = r.w
       /\ heap' = r.heap
       /\ lastOp' = Op("batchDecrypt", r.err, 0, 0)
    /\ UNCHANGED <<store, open, nextID, lastLocker, others>>

\* ------------------------------------------------------------------ foreign records

\* An account record written to the Store by another program: it parses, but
\* its crypto holds a secret that is not the key of its pubkey (Key2 for
\* Key1's public key) or no key at all (ZeroKey); or it is of a keystore
\* version this program does not read, and does not parse.
ForeignSecrets == {Key2, ZeroKey}
ForeignRecords ==
    {[secret |-> sk, version |-> EncryptorVersion] : sk \in ForeignSecrets}
        \cup {[secret |-> Key1, version |-> EncryptorVersion - 1]}

ForeignRecord(f) ==
    /\ nextID <= MaxAccounts
    /\ StoreHasWallet(store, "w")
    /\ ~\E r \in store.accounts : r.name = NameForeign
    /\ store' = StoreAccount(store,
                    [uuid |-> nextID,
                     name |-> NameForeign,
                     pubkey |-> HexEncode(PublicKey(Key1)),
                     verificationvector |-> <<HexEncode(21)>>,
                     signing_threshold |-> 1,
                     participants |-> {DecEncode(1)},
                     crypto |-> Encrypt(f.secret, "p1"),
                     version |-> f.version])
    /\ nextID' = nextID + 1
    /\ lastOp' = Op("ForeignRecord", ErrNone, nextID, 0)
    /\ UNCHANGED <<open, w, heap, lastLocker, others>>

\* ------------------------------------------------------------------ foreign batches

\* The last key of the batch's plaintext, and the plaintext with it replaced.
LastSlice(secret) == SubSeq(secret, Len(secret) - KeyLen + 1, Len(secret))
WithLastSlice(secret, k) == SubSeq(secret, 1, Len(secret) - KeyLen) \o k

\* The batch record is as BatchWallet writes it, at its last entry: the
\* entry's public key parses and is the public key of the last key.
BatchIntact(b) ==
    /\ b.present /\ Len(b.entries) > 0
    /\ BatchEntryOK(b.entries[Len(b.entries)])
    /\ BLSPrivateKeyFromBytesOK(LastSlice(b.crypto.secret))
    /\ PublicKey(LastSlice(b.crypto.secret)) = HexDecode(b.entries[Len(b.entries)].pubkey)

\* The batch record as another program (or a damaged file) leaves it: the
\* last key is no key or another account's key, or the last entry's public
\* key is no public key.
ForeignBatches(b) ==
    IF ~BatchIntact(b) THEN {} ELSE
    {[b EXCEPT !.crypto.secret = WithLastSlice(b.crypto.secret, k)] :
        k \in {x \in {Key1, Key2, ZeroKey} : x # LastSlice(b.crypto.secret)}}
      \cup {[b EXCEPT !.entries[Len(b.entries)].pubkey = HexEncode(0)]}

ForeignBatch(b) ==
    /\ StoreHasWallet(store, "w")
    /\ BatchIntact(store.batch)
    /\ store' = [store EXCEPT !.batch = b]
    /\ lastOp' = Op("ForeignBatch", ErrNone, 0, 0)
    /\ UNCHANGED <<open, w, heap, nextID, lastLocker, others>>

\* ------------------------------------------------------------------ export and import

\* The accounts of an export without the last record read.
DumpAccountsDropsLast(records) ==
    [i \in 1..(Len(records) - 1) |-> MarshalAccount(deserializeAccount(records[i]))]

\* The accounts of an export taken from the cache when a batch is in use.
DumpAccountsFromCache(records) ==
    [i \in DOMAIN SelectSeq(records, LAMBDA rec : BatchInUse(w) => rec.uuid \in DOMAIN w.accounts) |->
        MarshalAccount(deserializeAccount(
            SelectSeq(records, LAMBDA rec : BatchInUse(w) => rec.uuid \in DOMAIN w.accounts)[i]))]

\* The accounts of an export: every record deserialized and marshalled again.
DumpAccounts(records) == [i \in DOMAIN records |-> MarshalAccount(deserializeAccount(records[i]))]

\* wallet.Export over the account records in the order RetrieveAccounts gives
\* them; it stops at a record that does not parse.  dump.exported keeps the
\* records the Store held.
Export(passphrase, records) ==
    /\ open
    /\ IF \E i \in DOMAIN records : UnmarshalAccountErr(records[i]) # ErrNone
           THEN /\ lastOp' = Op("Export", ErrExportAccount, 0, 0)
                /\ UNCHANGED dump
       ELSE /\ dump' = [present |-> TRUE, passphrase |-> passphrase,
                        wallet |-> MarshalWallet(w.id, w.name),
                        accounts |-> DumpAccounts(records), exported |-> store.accounts]
            /\ lastOp' = Op("Export", ErrNone, 0, 0)
    /\ UNCHANGED <<store, open, w, heap, nextID, lastLocker, input, nextWalletID, batchAtOpen, threads>>

\* The loop of Import over the accounts of the dump: the index entry is added
\* and the account stored (and confirmed); the first failure ends the import.
RECURSIVE importAccounts(_, _, _, _)
RECURSIVE importAccountsNext(_, _)
importAccountsNext(r, accounts) ==
    IF r.err # ErrNone THEN [r EXCEPT !.err = ErrImportAccount]
    ELSE importAccounts(r.w, r.heap, r.store, accounts)
importAccounts(W, H, S, accounts) ==
    IF accounts = <<>> THEN [w |-> W, heap |-> H, store |-> S, err |-> ErrNone]
    ELSE importAccountsNext(
            storeAccountOp([W EXCEPT !.index = IndexAdd(W.index, Head(accounts).uuid, Head(accounts).name)],
                           H, S, deserializeAccount(Head(accounts)), FALSE, "none"),
            Tail(accounts))

\* Import after the loop, r its result: the index is stored once more.
importIndexed(r) ==
    IF r.err # ErrNone THEN r ELSE [r EXCEPT !.store = storeAccountsIndex(r.store, r.w.index)]

\* Import once the existence check has let it through: storeWallet (the
\* empty index, the wallet record), the accounts, the index.
importWalletOp(S, d) ==
    importIndexed(importAccounts(UnmarshalWallet(d.wallet), <<>>,
                                 StoreWallet(storeAccountsIndex(S, IndexNew), d.wallet), d.accounts))

\* Import returns r: the wallet, or the error with what was written left in
\* the Store.
importWalletReturn(r) ==
    /\ store' = r.store
    /\ lastOp' = Op("Import", r.err, 0, 0)
    /\ IF r.err = ErrNone
           THEN /\ w' = r.w /\ heap' = r.heap /\ open' = TRUE /\ lastLocker' = "none"
                /\ batchAtOpen' = store.batch
       ELSE UNCHANGED <<w, heap, open, lastLocker, batchAtOpen>>
    /\ UNCHANGED <<nextID, input, dump, nextWalletID, threads>>

\* Import is refused because OpenWallet has opened a wallet of the name; r is
\* what that OpenWallet left.
importRefused(r) ==
    /\ store' = r.store
    /\ lastOp' = Op("Import", ErrWalletExists, 0, 0)
    /\ UNCHANGED <<w, heap, open, lastLocker, nextID, others>>

\* Import of the dump into the Store.
Import(passphrase) ==
    /\ dump.present
    /\ IF passphrase # dump.passphrase
           THEN /\ lastOp' = Op("Import", ErrImportDecrypt, 0, 0)
                /\ UNCHANGED <<store, open, w, heap, nextID, lastLocker, others>>
       ELSE IF \/ ~UnmarshalWalletOK(dump.wallet)
               \/ \E i \in DOMAIN dump.accounts : UnmarshalAccountErr(dump.accounts[i]) # ErrNone
           THEN /\ lastOp' = Op("Import", ErrImportUnmarshal, 0, 0)
                /\ UNCHANGED <<store, open, w, heap, nextID, lastLocker, others>>
       ELSE IF ~StoreHasWallet(store, dump.wallet.name)
           THEN importWalletReturn(importWalletOp(store, dump))
       ELSE \E rec \in StoreWalletRecords(store, dump.wallet.name) :
            IF ~UnmarshalWalletOK(rec) \/ IndexCorrupt(store)
                THEN importWalletReturn(importWalletOp(store, dump))
            ELSE \E bfault \in OpenBatchFaults(store) :
                 \E order \in OpenOrders(store, bfault) :
                    importRefused(retrieveAccountsIndex(UnmarshalWallet(rec), <<>>, store, bfault, order))

\* The Stores a dump may be taken to: empty ones, and one in which another
\* package keeps a wallet of its own type under the same name.
ForeignWalletRecord ==
    [uuid |-> ForeignWalletUUID, name |-> "w", version |-> 1, type |-> ForeignWalletType]
TargetStores ==
    EmptyStores \cup {[S EXCEPT !.wallets = {ForeignWalletRecord}] : S \in EmptyStores}

\* The program is run on another Store: no wallet instance is open there.
NewStore(S) ==
    /\ dump.present
    /\ store' = S
    /\ open' = FALSE
    /\ w' = newWallet
    /\ heap' = <<>>
    /\ lastLocker' = "none"
    /\ lastOp' = Op("NewStore", ErrNone, 0, 0)
    /\ batchAtOpen' = NoBatchRecord
    /\ UNCHANGED <<nextID, input, dump, nextWalletID, threads>>

\* ------------------------------------------------------------------ specification

BatchPassphrases == {"p2"}
PassphraseLists == {<<>>} \cup {<<p>> : p \in Passphrases}
                     \cup {<<pq[1], pq[2]>> : pq \in {x \in Passphrases \X Passphrases : x[1] # x[2]}}

\* Spec: the wallet and its Store.  Imports meet Store failures, the index
\* record is deleted between runs, batches are built and fetched; the accounts
\* stay as the wallet hands them out.
Next ==
    \/ \E name \in WalletNames : CreateWallet(name)
    \/ \E name \in WalletNames : OpenWallet(name)
    \/ WalletLock
    \/ \E p \in Passphrases : WalletUnlock(p)
    \/ DeleteIndex
    \/ \E in \in ImportInputs, bfault \in BatchFaults, fault \in ImportFaults :
          ImportDistributedAccount(in, bfault, fault)
    \/ \E id \in 1..MaxAccounts, bfault \in BatchFaults : AccountByID(id, bfault)
    \/ \E name \in {NameA, NameB}, bfault \in BatchFaults : AccountByName(name, bfault)
    \/ \E bfault \in BatchFaults : Accounts(bfault)
    \/ \E ps \in PassphraseLists, bp \in BatchPassphrases, records \in Orders(store.accounts) :
          BatchWallet(ps, bp, records)

Spec == Init /\ [][Next]_vars

\* ------------------------------------------------------------------ SpecAccounts

\* The accounts a wallet hands out (imported, fetched from the Store, foreign,
\* materialized from a batch) and the calls on them; the Store does not fail.
NextAccounts ==
    \/ \E name \in WalletNames : CreateWallet(name)
    \/ \E name \in WalletNames : OpenWallet(name)
    \/ \E p \in Passphrases : WalletUnlock(p)
    \/ \E in \in ImportInputs : ImportDistributedAccount(in, FALSE, "none")
    \/ \E f \in ForeignRecords : ForeignRecord(f)
    \/ \E id \in 1..MaxAccounts : AccountByID(id, FALSE)
    \/ \E name \in {NameA, NameB, NameForeign} : AccountByName(name, FALSE)
    \/ Accounts(FALSE)
    \/ \E ps \in PassphraseLists, bp \in BatchPassphrases, records \in Orders(store.accounts) :
          BatchWallet(ps, bp, records)
    \/ \E p \in Passphrases : batchDecrypt(p)
    \/ \E ref \in DOMAIN heap : AccountLock(ref)
    \/ \E ref \in DOMAIN heap, p \in Passphrases : AccountUnlock(ref, p)
    \/ \E ref \in DOMAIN heap : Sign(ref)
    \/ \E ref \in DOMAIN heap : PrivateKey(ref)

SpecAccounts == Init /\ [][NextAccounts]_vars

\* ------------------------------------------------------------------ SpecBatch

\* The batch record of the Store as the wallet meets it: built by BatchWallet,
\* damaged or written by another program, fetched (or not) by the first
\* lookup, decrypted by batchDecrypt.
NextBatch ==
    \/ \E name \in WalletNames : CreateWallet(name)
    \/ \E name \in WalletNames : OpenWallet(name)
    \/ WalletUnlock("p1")
    \/ \E in \in ImportInputs : ImportDistributedAccount(in, FALSE, "none")
    \/ \E records \in Orders(store.accounts) : BatchWallet(<<"p1", "p2">>, "p1", records)
    \/ \E b \in ForeignBatches(store.batch) : ForeignBatch(b)
    \/ \E id \in 1..MaxAccounts, bfault \in BatchFaults : AccountByID(id, bfault)
    \/ \E bfault \in BatchFaults : Accounts(bfault)
    \/ \E p \in Passphrases : batchDecrypt(p)

SpecBatch == Init /\ [][NextBatch]_vars

\* ------------------------------------------------------------------ SpecSnapshot

\* Export on an instance that has a batch in use, a cache and unlocked
\* accounts.
NextSnapshot ==
    \/ CreateWallet("w")
    \/ OpenWallet("w")
    \/ WalletUnlock("p1")
    \/ \E in \in ImportInputs : ImportDistributedAccount(in, FALSE, "none")
    \/ \E records \in Orders(store.accounts) : BatchWallet(<<"p1", "p2">>, "p1", records)
    \/ \E id \in 1..MaxAccounts : AccountByID(id, FALSE)
    \/ \E ref \in DOMAIN heap : AccountUnlock(ref, "p1")
    \/ \E records \in Orders(store.accounts) : Export("p1", records)

SpecSnapshot == Init /\ [][NextSnapshot]_vars

\* ------------------------------------------------------------------ SpecExport

\* A wallet is filled, exported, and the dump imported into the same Store or
\* another; the Store does not fail.
NextExport ==
    \/ \E name \in WalletNames : CreateWallet(name)
    \/ \E name \in WalletNames : OpenWallet(name)
    \/ \E p \in Passphrases : WalletUnlock(p)
    \/ \E in \in ImportInputs : ImportDistributedAccount(in, FALSE, "none")
    \/ DeleteIndex
    \/ CorruptIndex
    \/ \E p \in Passphrases, records \in Orders(store.accounts) : Export(p, records)
    \/ \E S \in TargetStores : NewStore(S)
    \/ \E p \in Passphrases : Import(p)

SpecExport == Init /\ [][NextExport]_vars

\* ------------------------------------------------------------------ SpecInputs

\* One import input, drawn from every combination of the bounded domains, is
\* offered to a wallet that is created, locked and unlocked around it; the
\* Store does not fail.
InitInputs == InitWallet /\ input \in AllImportInputs

ImportInput == ImportDistributedAccount(input, FALSE, "none")

NextInputs ==
    \/ \E name \in WalletNames : CreateWallet(name)
    \/ WalletLock
    \/ \E p \in Passphrases : WalletUnlock(p)
    \/ ImportInput

SpecInputs == InitInputs /\ [][NextInputs]_vars

\* ------------------------------------------------------------------ account records

\* A value of the JSON document of an account record: absent, or of a JSON
\* type.  A string of hex digits is as HexEncode writes it, digits -1 for text
\* that is no hex; a string that is a UUID has the UUID's number, 0 if it is
\* none.
Absent == [tag |-> "absent", val |-> 0]
NotHex == [prefix |-> FALSE, digits |-> -1]
HexDecodeOK(h) == h.digits >= 0

UUIDValues == {Absent, [tag |-> "number", val |-> 1], [tag |-> "string", val |-> 0], [tag |-> "string", val |-> 1]}
NameValues == {Absent, [tag |-> "number", val |-> 1], [tag |-> "string", val |-> NameA]}
HexValues == {[tag |-> "string", val |-> h] : h \in {NotHex, HexEncode(0), HexEncode(PublicKey(Key1))}}
PubkeyValues == {Absent, [tag |-> "number", val |-> 1]} \cup HexValues
VVValues ==
    {Absent, [tag |-> "object", val |-> <<>>]}
        \cup {[tag |-> "array", val |-> <<e>>] : e \in HexValues \cup {[tag |-> "number", val |-> 1]}}
        \cup {[tag |-> "array", val |-> <<[tag |-> "string", val |-> HexEncode(21)], e>>] :
                 e \in {[tag |-> "number", val |-> 1], [tag |-> "string", val |-> NotHex]}}
\* The entries of the participants object: the key, and whether the value
\* is a string.
ParticipantValues ==
    {Absent, [tag |-> "array", val |-> {}]}
        \cup {[tag |-> "object", val |-> es] :
                 es \in {{[decimal |-> 1, str |-> TRUE]},
                         {[decimal |-> k, str |-> TRUE] : k \in 1..MaxParticipants},
                         {[decimal |-> -1, str |-> TRUE]},
                         {[decimal |-> 1, str |-> FALSE]},
                         {[decimal |-> -1, str |-> TRUE], [decimal |-> 1, str |-> FALSE]}}}
\* A JSON number is a float64: its whole part, and whether a fraction follows.
Float(n, frac) == [whole |-> n, frac |-> frac]
ThresholdValues ==
    {Absent, [tag |-> "string", val |-> 0], [tag |-> "number", val |-> Float(MaxThreshold, TRUE)]}
        \cup {[tag |-> "number", val |-> Float(n, FALSE)] : n \in {-1} \cup 1..MaxThreshold}
CryptoValues == {Absent, [tag |-> "string", val |-> 0], [tag |-> "object", val |-> Encrypt(Key1, "p1")]}
VersionValues ==
    {Absent, [tag |-> "string", val |-> 0], [tag |-> "number", val |-> Float(EncryptorVersion, TRUE)]}
        \cup {[tag |-> "number", val |-> Float(n, FALSE)] : n \in {EncryptorVersion - 1, EncryptorVersion}}

\* The documents deserializeAccount is given: text that is no JSON, and JSON
\* objects with each field absent, of a wrong type, of a wrong value or right.
AccountDocs ==
    [malformed : {FALSE}, uuid : UUIDValues, name : NameValues, pubkey : PubkeyValues,
     verificationvector : VVValues, participants : ParticipantValues,
     signing_threshold : ThresholdValues, crypto : CryptoValues, version : VersionValues]
        \cup [malformed : {TRUE}, uuid : {Absent}, name : {Absent}, pubkey : {Absent},
              verificationvector : {Absent}, participants : {Absent},
              signing_threshold : {Absent}, crypto : {Absent}, version : {Absent}]

\* uint32(f) and uint(f) of a float64: the fraction is discarded; of a value
\* below zero the result depends on the implementation, which wraps it
\* around 2^32 or takes it for zero.  The wrapped value is far above every
\* number it is compared with; 2^31 stands for 2^32, which the integers of
\* the model checker do not reach.
UintOfFloat(f, wraps) ==
    IF f.whole >= 0 THEN f.whole
    ELSE IF wraps THEN (2^30 + f.whole) + 2^30
    ELSE 0

\* The loop over the verification vector from element i on: the error of the
\* first element that is no string, no hex or no public key.
RECURSIVE VVLoopErr(_, _)
VVLoopErr(vv, i) ==
    IF i > Len(vv) THEN ErrNone
    ELSE IF vv[i].tag # "string" THEN "account verification vector does not contain strings"
    ELSE IF ~HexDecodeOK(vv[i].val) THEN "failed to decode verification vector element"
    ELSE IF ~BLSPublicKeyFromBytesOK(HexDecode(vv[i].val))
        THEN "failed to obtain BLS public key for verification fector element"
    ELSE VVLoopErr(vv, i + 1)

\* One entry of the participants object: the key is parsed, then the value
\* is looked at.
ParticipantErr(e) ==
    IF e.decimal < 0 THEN "account participant ID invalid"
    ELSE IF ~e.str THEN "account participant value invalid"
    ELSE ErrNone

\* The loop over the participants object, a Go map, whose order of iteration
\* is not fixed: the errors it may return, the first entry met that fails.
ParticipantsLoopErrs(es) ==
    IF \A e \in es : ParticipantErr(e) = ErrNone THEN {ErrNone}
    ELSE {ParticipantErr(e) : e \in {x \in es : ParticipantErr(x) # ErrNone}}

\* account.UnmarshalJSON: the error it returns, perr being the error of the
\* loop over the participants and wraps the way of the conversions.
UnmarshalJSONErr(doc, perr, wraps) ==
    IF doc.malformed THEN "failed to unmarshal account"
    ELSE IF doc.uuid.tag = "absent" THEN "account ID missing"
    ELSE IF doc.uuid.tag # "string" THEN "account ID invalid"
    ELSE IF doc.uuid.val = 0 THEN "failed to parse UUID"
    ELSE IF doc.name.tag = "absent" THEN "account name missing"
    ELSE IF doc.name.tag # "string" THEN "account name invalid"
    ELSE IF doc.pubkey.tag = "absent" THEN "account pubkey missing"
    ELSE IF doc.pubkey.tag # "string" THEN "account pubkey invalid"
    ELSE IF ~HexDecodeOK(doc.pubkey.val) THEN "failed to decode public key"
    ELSE IF ~BLSPublicKeyFromBytesOK(HexDecode(doc.pubkey.val)) THEN "failed to obtain BLS public key"
    ELSE IF doc.verificationvector.tag = "absent" THEN "account verificationvector missing"
    ELSE IF doc.verificationvector.tag # "array" THEN "account verificationvector invalid"
    ELSE IF VVLoopErr(doc.verificationvector.val, 1) # ErrNone THEN VVLoopErr(doc.verificationvector.val, 1)
    ELSE IF doc.participants.tag = "absent" THEN "participants missing"
    ELSE IF doc.participants.tag # "object" THEN "account participants invalid"
    ELSE IF perr # ErrNone THEN perr
    ELSE IF doc.signing_threshold.tag = "absent" THEN "account signing threshold missing"
    ELSE IF doc.signing_threshold.tag # "number" THEN "account signing threshold invalid"
    ELSE IF UintOfFloat(doc.signing_threshold.val, wraps) <= Cardinality(doc.participants.val) \div 2
        THEN "account signing threshold too low"
    ELSE IF doc.crypto.tag = "absent" THEN "account crypto missing"
    ELSE IF doc.crypto.tag # "object" THEN "account crypto invalid"
    ELSE IF doc.version.tag = "absent" THEN "account version missing"
    ELSE IF doc.version.tag # "number" THEN "account version invalid"
    ELSE IF UintOfFloat(doc.version.val, wraps) # 4 THEN "unsupported keystore version"
    ELSE ErrNone

\* The account object UnmarshalJSON fills from a document that parses.
UnmarshalledAccount(doc, wraps) ==
    [id |-> doc.uuid.val,
     name |-> doc.name.val,
     publicKey |-> HexDecode(doc.pubkey.val),
     verificationVector |-> [i \in DOMAIN doc.verificationvector.val |-> HexDecode(doc.verificationvector.val[i].val)],
     signingThreshold |-> UintOfFloat(doc.signing_threshold.val, wraps),
     participants |-> {e.decimal : e \in doc.participants.val},
     crypto |-> doc.crypto.val,
     secretKey |-> <<>>,
     version |-> UintOfFloat(doc.version.val, wraps)]

\* deserializeAccount(w, data): the account, or nil and the error (the empty
\* set stands for nil).
deserializeAccountDoc(doc, perr, wraps) ==
    IF UnmarshalJSONErr(doc, perr, wraps) # ErrNone
        THEN [err |-> UnmarshalJSONErr(doc, perr, wraps), account |-> {}]
    ELSE [err |-> ErrNone, account |-> {UnmarshalledAccount(doc, wraps)}]

\* The document drawn at the start is deserialized.
DeserializeDoc ==
    \E perr \in (IF input.participants.tag = "object"
                     THEN ParticipantsLoopErrs(input.participants.val) ELSE {ErrNone}),
       wraps \in BOOLEAN :
        /\ lastOp' = [Op("deserializeAccount", deserializeAccountDoc(input, perr, wraps).err, 0, 0)
                         EXCEPT !.yield = deserializeAccountDoc(input, perr, wraps).account]
        /\ UNCHANGED <<store, open, w, heap, nextID, lastLocker, others>>

InitRecords == InitWallet /\ input \in AccountDocs

SpecRecords == InitRecords /\ [][DeserializeDoc]_vars

\* ------------------------------------------------------------------ threads

\* The calls threads make on the one wallet instance they share.
ThreadCalls ==
    {[kind |-> "AccountByID", id |-> i, name |-> NoName, in |-> NoInput] : i \in 1..MaxAccounts}
        \cup {[kind |-> "AccountByName", id |-> 0, name |-> c.name, in |-> NoInput] : c \in Credentials}
        \cup {[kind |-> "Accounts", id |-> 0, name |-> NoName, in |-> NoInput]}
        \cup {[kind |-> "ImportDistributedAccount", id |-> 0, name |-> in.name, in |-> in] : in \in ImportInputs}

\* Thread t is at position pc of its call; a fatal error of the runtime has
\* stopped none of them.
At(t, pc) == threads.running /\ ~threads.fatal /\ threads.pc[t] = pc

\* What a step of a thread leaves alone.
sequential == <<open, lastOp, lastLocker, input, dump, nextWalletID, batchAtOpen>>

\* The threads are started on an instance that has not looked at its batch.
StartThreads(calls) ==
    /\ open /\ ~threads.running /\ ~w.batch.set
    /\ threads' = [NoThreads EXCEPT
                      !.running = TRUE,
                      !.call = calls,
                      !.lookup = [t \in Threads |-> calls[t].id],
                      !.pc = [t \in Threads |->
                                 IF calls[t].kind = "ImportDistributedAccount" THEN "import"
                                 ELSE IF calls[t].kind = "AccountByName" THEN "name" ELSE "check"]]
    /\ UNCHANGED <<store, w, heap, nextID, sequential>>

\* AccountByName: the index resolves the name, then AccountByID is called.
lookupName(t) ==
    /\ At(t, "name")
    /\ threads' = IF ~IndexHasName(w.index, threads.call[t].name)
                      THEN [threads EXCEPT !.pc[t] = "done", !.err[t] = ErrNoAccountName]
                  ELSE [threads EXCEPT !.pc[t] = "check", !.lookup[t] = IndexID(w.index, threads.call[t].name)]
    /\ UNCHANGED <<store, w, heap, nextID, sequential>>

\* retrieveBatchIfRequired: w.batch is read with no lock held.
checkBatch(t) ==
    /\ At(t, "check")
    /\ threads' = [threads EXCEPT !.pc[t] = IF ~w.batch.set /\ store.batchCapable THEN "lock" ELSE "use"]
    /\ UNCHANGED <<store, w, heap, nextID, sequential>>

\* retrieveAccountsBatch: w.batchMutex.Lock()
lockBatchMutex(t) ==
    /\ At(t, "lock")
    /\ threads.batchMutex = 0
    /\ threads' = [threads EXCEPT !.pc[t] = "recheck", !.batchMutex = t]
    /\ UNCHANGED <<store, w, heap, nextID, sequential>>

\* retrieveAccountsBatch that does not look at w.batch again under the lock.
recheckBatchBlind(t) ==
    /\ At(t, "recheck")
    /\ w' = [w EXCEPT !.batch = MarkerBatch]
    /\ threads' = [threads EXCEPT !.pc[t] = "retrieve"]
    /\ UNCHANGED <<store, heap, nextID, sequential>>

\* retrieveAccountsBatch under the lock: return if the batch has been
\* retrieved meanwhile, else place the marker.
recheckBatch(t) ==
    /\ At(t, "recheck")
    /\ IF w.batch.set
           THEN /\ threads' = [threads EXCEPT !.pc[t] = "use", !.batchMutex = 0, !.waited[t] = TRUE]
                /\ UNCHANGED w
       ELSE /\ w' = [w EXCEPT !.batch = MarkerBatch]
            /\ threads' = [threads EXCEPT !.pc[t] = "retrieve"]
    /\ UNCHANGED <<store, heap, nextID, sequential>>

\* retrieveAccountsBatch: the RetrieveBatch call.  A failure returns with
\* the marker left in place.
retrieveBatch(t, fault) ==
    /\ At(t, "retrieve")
    /\ threads.retrieveBatchCalls <= MaxThreads
    /\ IF ~store.batch.present \/ fault
           THEN /\ threads' = [threads EXCEPT !.pc[t] = "use", !.batchMutex = 0, !.failed = TRUE,
                                              !.retrieveBatchCalls = @ + 1]
                /\ UNCHANGED w
       ELSE /\ w' = [w EXCEPT !.batch = [set |-> TRUE, entries |-> store.batch.entries,
                                         crypto |-> store.batch.crypto]]
            /\ threads' = [threads EXCEPT !.pc[t] = "materialize", !.retrieveBatchCalls = @ + 1]
    /\ UNCHANGED <<store, heap, nextID, sequential>>

\* retrieveAccountsBatch: the accounts of the entries are put in w.accounts,
\* under batchMutex.
materializeBatch(t) ==
    /\ At(t, "materialize")
    /\ w' = Materialize(w, heap, w.batch.entries).w
    /\ heap' = Materialize(w, heap, w.batch.entries).heap
    /\ threads' = [threads EXCEPT !.pc[t] = "use", !.batchMutex = 0]
    /\ UNCHANGED <<store, nextID, sequential>>

\* A lookup of thread t returns to its caller.
Returned(t, err, ref) ==
    [threads EXCEPT !.pc[t] = threads.ret[t], !.ret[t] = "done", !.err[t] = err, !.ref[t] = ref]

\* Accounts and AccountByID after retrieveBatchIfRequired: w.batch is read
\* with no lock held, and AccountByID reads w.accounts.
useBatch(t) ==
    /\ At(t, "use")
    /\ threads' = IF threads.call[t].kind = "Accounts"
                      THEN [threads EXCEPT !.pc[t] = IF BatchInUse(w) THEN "iterate" ELSE "scan"]
                  ELSE IF BatchInUse(w) /\ threads.lookup[t] \in DOMAIN w.accounts
                      THEN Returned(t, ErrNone, w.accounts[threads.lookup[t]])
                  ELSE [threads EXCEPT !.pc[t] = "fetch"]
    /\ UNCHANGED <<store, w, heap, nextID, sequential>>

\* AccountByID: RetrieveAccount, deserializeAccount and w.accounts[id] = res.
RetrieveAndCache(W, H, S, id) ==
    IF ~StoreHasAccount(S, id) THEN [w |-> W, heap |-> H, err |-> ErrRetrieve, ref |-> 0]
    ELSE IF UnmarshalAccountErr(StoreAccountRecord(S, id)) # ErrNone
        THEN [w |-> W, heap |-> H, err |-> ErrUnmarshal, ref |-> 0]
    ELSE Found(CachePut(W, H, deserializeAccount(StoreAccountRecord(S, id))))

fetchAccount(t) ==
    /\ At(t, "fetch")
    /\ w' = RetrieveAndCache(w, heap, store, threads.lookup[t]).w
    /\ heap' = RetrieveAndCache(w, heap, store, threads.lookup[t]).heap
    /\ threads' = Returned(t, RetrieveAndCache(w, heap, store, threads.lookup[t]).err,
                           RetrieveAndCache(w, heap, store, threads.lookup[t]).ref)
    /\ UNCHANGED <<store, nextID, sequential>>

\* Accounts with a batch in use: the loop over w.accounts.
iterateCache(t) ==
    /\ At(t, "iterate")
    /\ threads' = [threads EXCEPT !.pc[t] = "done",
                                  !.yield[t] = AccountsYield([w |-> w, heap |-> heap], store).yield]
    /\ UNCHANGED <<store, w, heap, nextID, sequential>>

\* Accounts with no batch in use: the loop over RetrieveAccounts.
scanStore(t) ==
    /\ At(t, "scan")
    /\ threads' = [threads EXCEPT !.pc[t] = "done",
                                  !.yield[t] = {[uuid |-> rec.uuid, name |-> rec.name] :
                                                   rec \in {x \in store.accounts : UnmarshalAccountErr(x) = ErrNone}}]
    /\ UNCHANGED <<store, w, heap, nextID, sequential>>

\* ImportDistributedAccount: the input checks and the lookup of the name in
\* the index; AccountByID is called for a name the index has.
importBegin(t) ==
    /\ At(t, "import")
    /\ threads' = IF ImportInputErr(w, threads.call[t].in) # ErrNone
                      THEN [threads EXCEPT !.pc[t] = "done", !.err[t] = ImportInputErr(w, threads.call[t].in)]
                  ELSE IF ~IndexHasName(w.index, threads.call[t].in.name)
                      THEN [threads EXCEPT !.pc[t] = "new"]
                  ELSE [threads EXCEPT !.pc[t] = "check", !.ret[t] = "exists",
                                       !.lookup[t] = IndexID(w.index, threads.call[t].in.name)]
    /\ UNCHANGED <<store, w, heap, nextID, sequential>>

\* ImportDistributedAccount after AccountByName for a name the index has.
importExists(t) ==
    /\ At(t, "exists")
    /\ threads' = IF threads.err[t] = ErrNone
                      THEN [threads EXCEPT !.pc[t] = "done", !.err[t] = ErrExists, !.ref[t] = 0]
                  ELSE [threads EXCEPT !.pc[t] = "new"]
    /\ UNCHANGED <<store, w, heap, nextID, sequential>>

\* ImportDistributedAccount: newAccount and the fields of the account.
importNew(t) ==
    /\ At(t, "new")
    /\ nextID < MaxAccounts + MaxThreads
    /\ nextID' = nextID + 1
    /\ threads' = [threads EXCEPT !.pc[t] = "mutex", !.id[t] = nextID]
    /\ UNCHANGED <<store, w, heap, sequential>>

\* ImportDistributedAccount: w.mutex.Lock()
importLock(t) ==
    /\ At(t, "mutex")
    /\ threads.mutex = 0
    /\ threads' = [threads EXCEPT !.pc[t] = "store", !.mutex = t]
    /\ UNCHANGED <<store, w, heap, nextID, sequential>>

\* ImportDistributedAccount under w.mutex: index.Add, then storeAccount as
\* far as its AccountByName, which finds the name just added.
importStore(t) ==
    /\ At(t, "store")
    /\ w' = [w EXCEPT !.index = IndexAdd(w.index, threads.id[t], threads.call[t].in.name)]
    /\ store' = StoreAccount(storeAccountsIndex(store, IndexAdd(w.index, threads.id[t], threads.call[t].in.name)),
                             MarshalAccount(ImportedAccount(threads.id[t], threads.call[t].in)))
    /\ threads' = [threads EXCEPT !.pc[t] = "check", !.ret[t] = "confirmed",
                                  !.lookup[t] = IndexID(IndexAdd(w.index, threads.id[t], threads.call[t].in.name),
                                                        threads.call[t].in.name)]
    /\ UNCHANGED <<heap, nextID, sequential>>

\* The import of thread t fails under w.mutex: index.Remove, w.mutex.Unlock().
importFailed(t, err) ==
    /\ w' = [w EXCEPT !.index = IndexRemove(w.index, threads.id[t], threads.call[t].in.name)]
    /\ threads' = [threads EXCEPT !.pc[t] = "done", !.mutex = 0, !.err[t] = err, !.ref[t] = 0]
    /\ UNCHANGED heap

\* storeAccount after its AccountByName: AccountByID of the new account.
importConfirmed(t) ==
    /\ At(t, "confirmed")
    /\ IF threads.err[t] # ErrNone THEN importFailed(t, ErrConfirmName)
       ELSE /\ threads' = [threads EXCEPT !.pc[t] = "check", !.ret[t] = "cache", !.lookup[t] = threads.id[t]]
            /\ UNCHANGED <<w, heap>>
    /\ UNCHANGED <<store, nextID, sequential>>

\* ImportDistributedAccount after storeAccount: w.accounts[a.id] = a and
\* w.mutex.Unlock().
importCache(t) ==
    /\ At(t, "cache")
    /\ IF threads.err[t] # ErrNone THEN importFailed(t, ErrConfirmID)
       ELSE /\ w' = CachePut(w, heap, ImportedAccount(threads.id[t], threads.call[t].in)).w
            /\ heap' = CachePut(w, heap, ImportedAccount(threads.id[t], threads.call[t].in)).heap
            /\ threads' = [threads EXCEPT !.pc[t] = "done", !.mutex = 0, !.err[t] = ErrNone,
                              !.ref[t] = CachePut(w, heap, ImportedAccount(threads.id[t], threads.call[t].in)).ref]
    /\ UNCHANGED <<store, nextID, sequential>>

\* The access to the map w.accounts that the next step of thread t makes.
CacheAccess(t) ==
    IF ~threads.running \/ threads.fatal THEN "none"
    ELSE IF threads.pc[t] \in {"materialize", "cache"} THEN "write"
    ELSE IF threads.pc[t] = "fetch"
        THEN IF RetrieveAndCache(w, heap, store, threads.lookup[t]).err = ErrNone THEN "write" ELSE "none"
    ELSE IF threads.pc[t] = "iterate" THEN "read"
    ELSE IF threads.pc[t] = "use" /\ threads.call[t].kind # "Accounts" /\ BatchInUse(w) THEN "read"
    ELSE "none"

\* Two threads are about to access w.accounts, one of them writing, with
\* nothing that orders the two accesses.
CacheRace ==
    \E t1, t2 \in Threads : t1 # t2 /\ CacheAccess(t1) = "write" /\ CacheAccess(t2) # "none"

\* The runtime may stop the program on unsynchronised accesses to a map
\* ("concurrent map writes", "concurrent map read and map write").
mapFault ==
    /\ CacheRace
    /\ threads' = [threads EXCEPT !.fatal = TRUE]
    /\ UNCHANGED <<store, w, heap, nextID, sequential>>

NextThreads ==
    \/ ~threads.running /\ \E name \in WalletNames : CreateWallet(name)
    \/ ~threads.running /\ \E name \in WalletNames : OpenWallet(name)
    \/ ~threads.running /\ WalletUnlock("p1")
    \/ ~threads.running /\ \E in \in ImportInputs : ImportDistributedAccount(in, FALSE, "none")
    \/ ~threads.running /\ \E records \in Orders(store.accounts) : BatchWallet(<<"p1", "p2">>, "p1", records)
    \/ \E calls \in [Threads -> ThreadCalls] : StartThreads(calls)
    \/ \E t \in Threads : lookupName(t)
    \/ \E t \in Threads : checkBatch(t)
    \/ \E t \in Threads : lockBatchMutex(t)
    \/ \E t \in Threads : recheckBatch(t)
    \/ \E t \in Threads : \E fault \in BOOLEAN : retrieveBatch(t, fault)
    \/ \E t \in Threads : materializeBatch(t)
    \/ \E t \in Threads : useBatch(t)
    \/ \E t \in Threads : fetchAccount(t)
    \/ \E t \in Threads : iterateCache(t)
    \/ \E t \in Threads : scanStore(t)
    \/ \E t \in Threads : importBegin(t)
    \/ \E t \in Threads : importExists(t)
    \/ \E t \in Threads : importNew(t)
    \/ \E t \in Threads : importLock(t)
    \/ \E t \in Threads : importStore(t)
    \/ \E t \in Threads : importConfirmed(t)
    \/ \E t \in Threads : importCache(t)
    \/ mapFault

SpecThreads == Init /\ [][NextThreads]_vars

\* A step of thread t.
ThreadStep(t) ==
    \/ lookupName(t) \/ checkBatch(t) \/ lockBatchMutex(t) \/ recheckBatch(t)
    \/ \E fault \in BOOLEAN : retrieveBatch(t, fault)
    \/ materializeBatch(t) \/ useBatch(t) \/ fetchAccount(t) \/ iterateCache(t) \/ scanStore(t)
    \/ importBegin(t) \/ importExists(t) \/ importNew(t) \/ importLock(t) \/ importStore(t)
    \/ importConfirmed(t) \/ importCache(t)

\* The scheduler runs every goroutine that can take a step, and the calls of
\* the Store and of the Encryptor return.
SpecThreadsFair == SpecThreads /\ \A t \in Threads : WF_vars(ThreadStep(t))

\* ------------------------------------------------------------------ account threads

\* The calls threads make on the account objects of the heap: id is the
\* object, in.passphrase the passphrase of Unlock.
AccountCalls(H) ==
    {[kind |-> k, id |-> ref, name |-> NoName, in |-> [NoInput EXCEPT !.passphrase = p]] :
        k \in {"Lock", "Unlock", "Sign", "PrivateKey"}, ref \in DOMAIN H, p \in {"p1"}}
        \cup {[kind |-> "Unlock", id |-> ref, name |-> NoName, in |-> [NoInput EXCEPT !.passphrase = "p2"]] :
                 ref \in DOMAIN H}

\* A sync.RWMutex that nobody holds.
NoHolder == [writer |-> 0, readers |-> {}]

\* Lock and Unlock take a.mutex.Lock(), Sign and PrivateKey a.mutex.RLock().
Writes(call) == call.kind \in {"Lock", "Unlock"}

\* One lock for all the accounts of the wallet.
accountMutexFreeWalletWide(T, ref, write) ==
    \A r \in DOMAIN T.amutex : T.amutex[r].writer = 0 /\ (write => T.amutex[r].readers = {})

\* a.mutex of account object ref can be taken (for writing, for reading).
accountMutexFree(T, ref, write) ==
    T.amutex[ref].writer = 0 /\ (write => T.amutex[ref].readers = {})

\* The threads are started on the account objects the instance has handed
\* out; a goroutine that is not one of them may be inside a wallet operation
\* and hold w.mutex (wm) or w.batchMutex (bm).
StartAccountThreads(calls, wm, bm) ==
    /\ open /\ ~threads.running /\ heap # <<>>
    /\ threads' = [NoThreads EXCEPT
                      !.running = TRUE,
                      !.call = calls,
                      !.mutex = wm,
                      !.batchMutex = bm,
                      !.pc = [t \in Threads |->
                                 IF calls[t].kind = "batchDecrypt" THEN "decrypt" ELSE "account"],
                      !.amutex = [ref \in DOMAIN heap |-> NoHolder]]
    /\ UNCHANGED <<store, w, heap, nextID, sequential>>

\* a.mutex.Lock() or a.mutex.RLock(), the first statement of the four methods.
accountAcquire(t) ==
    /\ At(t, "account")
    /\ accountMutexFree(threads, threads.call[t].id, Writes(threads.call[t]))
    /\ threads' = [threads EXCEPT
                      !.pc[t] = "held",
                      !.amutex[threads.call[t].id] =
                          IF Writes(threads.call[t]) THEN [@ EXCEPT !.writer = t]
                          ELSE [@ EXCEPT !.readers = @ \cup {t}]]
    /\ UNCHANGED <<store, w, heap, nextID, sequential>>

\* The body of the method on account a: [err, account].
AccountCallOp(a, call) ==
    IF call.kind = "Lock" THEN [err |-> ErrNone, account |-> LockOp(a)]
    ELSE IF call.kind = "Unlock" THEN UnlockOp(a, call.in.passphrase)
    ELSE IF call.kind = "Sign" THEN [err |-> SignErr(a), account |-> a]
    ELSE [err |-> PrivateKeyErr(a), account |-> a]

\* The body, and the deferred a.mutex.Unlock() or a.mutex.RUnlock().
accountReturn(t) ==
    /\ At(t, "held")
    /\ heap' = [heap EXCEPT ![threads.call[t].id] = AccountCallOp(@, threads.call[t]).account]
    /\ threads' = [threads EXCEPT
                      !.pc[t] = "done",
                      !.ref[t] = threads.call[t].id,
                      !.err[t] = AccountCallOp(heap[threads.call[t].id], threads.call[t]).err,
                      !.amutex[threads.call[t].id] =
                          IF Writes(threads.call[t]) THEN [@ EXCEPT !.writer = 0]
                          ELSE [@ EXCEPT !.readers = @ \ {t}]]
    /\ UNCHANGED <<store, w, nextID, sequential>>

NextAccountThreads ==
    \/ ~threads.running /\ \E name \in WalletNames : CreateWallet(name)
    \/ ~threads.running /\ WalletUnlock("p1")
    \/ ~threads.running /\ \E in \in ImportInputs : ImportDistributedAccount(in, FALSE, "none")
    \/ ~threads.running /\ \E ref \in DOMAIN heap : AccountLock(ref)
    \/ \E calls \in [Threads -> AccountCalls(heap)], wm, bm \in {0, MaxThreads + 1} :
          StartAccountThreads(calls, wm, bm)
    \/ \E t \in Threads : accountAcquire(t)
    \/ \E t \in Threads : accountReturn(t)

SpecAccountThreads == Init /\ [][NextAccountThreads]_vars

\* ------------------------------------------------------------------ key threads

\* The calls that read or write the secret key of an account: the account's
\* own methods, and batchDecrypt of the wallet.
KeyCalls(H) ==
    {c \in AccountCalls(H) : c.in.passphrase = "p1"}
        \cup {[kind |-> "batchDecrypt", id |-> 0, name |-> NoName, in |-> [NoInput EXCEPT !.passphrase = "p1"]]}

\* batchDecrypt: w.batchMutex.Lock()
batchDecryptLock(t) ==
    /\ At(t, "decrypt")
    /\ threads.batchMutex = 0
    /\ threads' = [threads EXCEPT !.pc[t] = "decrypting", !.batchMutex = t]
    /\ UNCHANGED <<store, w, heap, nextID, sequential>>

\* batchDecrypt: the body, and the deferred w.batchMutex.Unlock().
batchDecryptReturn(t) ==
    /\ At(t, "decrypting")
    /\ w' = batchDecryptOp(w, heap, threads.call[t].in.passphrase).w
    /\ heap' = batchDecryptOp(w, heap, threads.call[t].in.passphrase).heap
    /\ threads' = [threads EXCEPT
                      !.pc[t] = "done",
                      !.err[t] = batchDecryptOp(w, heap, threads.call[t].in.passphrase).err,
                      !.batchMutex = 0]
    /\ UNCHANGED <<store, nextID, sequential>>

\* The account objects whose secretKey the next step of thread t reads or
\* writes: the account of the method t is inside, or every account of the
\* batch when t is inside a batchDecrypt that gets to its loop.
KeyAccess(t) ==
    IF At(t, "held") THEN {threads.call[t].id}
    ELSE IF At(t, "decrypting") /\ ~w.batchDecrypted /\ w.batch.set
            /\ DecryptOK(w.batch.crypto, threads.call[t].in.passphrase)
        THEN {w.accounts[w.batch.entries[i].uuid] : i \in DOMAIN w.batch.entries}
    ELSE {}

\* The next step of thread t may assign the secretKey of object ref.
KeyWrite(t, ref) ==
    /\ ref \in KeyAccess(t)
    /\ IF At(t, "held") THEN Writes(threads.call[t]) ELSE heap[ref].secretKey = <<>>

\* Thread t holds a.mutex of object ref.
HoldsAccountMutex(t, ref) == threads.amutex[ref].writer = t \/ t \in threads.amutex[ref].readers

\* Two threads are about to access the secretKey of one account, one of them
\* writing, and not both hold the account's mutex.
KeyRace ==
    \E t, u \in Threads, ref \in DOMAIN heap :
        /\ t # u /\ KeyWrite(t, ref) /\ ref \in KeyAccess(u)
        /\ ~(HoldsAccountMutex(t, ref) /\ HoldsAccountMutex(u, ref))

\* An unsynchronised write of the key (an interface value of two words) next
\* to a read of it may stop the program, or pass unnoticed.
keyFault ==
    /\ KeyRace
    /\ ~threads.fatal
    /\ threads' = [threads EXCEPT !.fatal = TRUE]
    /\ UNCHANGED <<store, w, heap, nextID, sequential>>

NextKeyThreads ==
    \/ ~threads.running /\ CreateWallet("w")
    \/ ~threads.running /\ OpenWallet("w")
    \/ ~threads.running /\ WalletUnlock("p1")
    \/ ~threads.running /\ \E in \in ImportInputs : ImportDistributedAccount(in, FALSE, "none")
    \/ ~threads.running /\ \E records \in Orders(store.accounts) : BatchWallet(<<"p1", "p2">>, "p1", records)
    \/ ~threads.running /\ \E id \in 1..MaxAccounts : AccountByID(id, FALSE)
    \/ \E calls \in [Threads -> KeyCalls(heap)] : BatchInUse(w) /\ StartAccountThreads(calls, 0, 0)
    \/ \E t \in Threads : accountAcquire(t)
    \/ \E t \in Threads : accountReturn(t)
    \/ \E t \in Threads : batchDecryptLock(t)
    \/ \E t \in Threads : batchDecryptReturn(t)
    \/ keyFault

SpecKeyThreads == Init /\ [][NextKeyThreads]_vars

\* ------------------------------------------------------------------ observations

\* What a lookup hands back: the id, name and public key of the account, or
\* nothing.
NotResolved == [uuid |-> 0, name |-> NoName, pubkey |-> 0]
Resolved(r) ==
    IF r.err = ErrNone
        THEN [uuid |-> r.heap[r.ref].id, name |-> r.heap[r.ref].name, pubkey |-> r.heap[r.ref].publicKey]
    ELSE NotResolved

\* What AccountByName, AccountByID and Accounts return on wallet W when the
\* Store answers every call.
Observable(W, H, S) ==
    [byName |-> [n \in {NameA, NameB} |-> Resolved(AccountByNameOp(W, H, S, n, FALSE, FALSE))],
     byID |-> [id \in 1..MaxAccounts |-> Resolved(AccountByIDOp(W, H, S, id, FALSE, FALSE))],
     accounts |-> AccountsOp(W, H, S, FALSE).yield]

\* The {uuid, name} pairs of the account records in the Store.
StorePairs(S) == {[uuid |-> rec.uuid, name |-> rec.name] : rec \in S.accounts}

\* ------------------------------------------------------------------ C1

\* C1: when an import returns a persistence error (index write, account write
\* or confirmation lookup), AccountByName, AccountByID and Accounts on the
\* wallet return afterwards what they returned before the import.
C1_NoPartialState ==
    [][(lastOp'.op = "ImportDistributedAccount" /\ lastOp'.err \in PersistErrors)
          => Observable(w', heap', store') = Observable(w, heap, store)]_vars

\* ------------------------------------------------------------------ C2

\* The nine checks of an import as the claim lists them, each TRUE when it fails.
ImportChecks(W, in) ==
    <<in.name = NoName,
      Len(in.name) > 0 /\ in.name[1] = "_",
      in.privatekey = <<>>,
      in.verificationVector = <<>>,
      in.participants = {},
      in.signingThreshold <= Cardinality(in.participants) \div 2,
      Len(in.verificationVector) # in.signingThreshold,
      ~W.unlocked,
      IndexHasName(W.index, in.name)>>
CheckErrors ==
    <<ErrNameMissing, ErrNameInvalid, ErrKeyMissing, ErrVVMissing, ErrParticipantsMissing,
      ErrRatio, ErrVVInvalid, ErrWalletLocked, ErrExists>>
FirstFailing(checks) ==
    IF \E i \in DOMAIN checks : checks[i] THEN Min({i \in DOMAIN checks : checks[i]}) ELSE 0

\* C2: an import returns the error of the lowest-numbered failing check of
\* the nine, and then nothing is parsed or written: the Store, the index and
\* the ID counter stay as they were (and, up to check 8, the whole wallet);
\* when no check fails the error is none of the nine.
C2_ValidationOrder ==
    [][lastOp'.op = "ImportDistributedAccount" =>
          LET k == FirstFailing(ImportChecks(w, input)) IN
          IF k = 0 THEN lastOp'.err \notin ValidationErrors
          ELSE /\ lastOp'.err = CheckErrors[k]
               /\ store' = store /\ w'.index = w.index /\ nextID' = nextID
               /\ k < 9 => (w' = w /\ heap' = heap)]_vars

\* Several checks fail at once and the lowest one is reported.
C2_Witness ==
    /\ lastOp.op = "ImportDistributedAccount"
    /\ lastOp.err = ErrRatio
    /\ Len(input.verificationVector) # input.signingThreshold
    /\ ~w.unlocked
    /\ ~BLSPrivateKeyFromBytesOK(input.privatekey)

\* ------------------------------------------------------------------ C3

ThresholdOK(t, n, vvLen) == t > n \div 2 /\ t # 0 /\ vvLen = t

\* C3: an import succeeds only with t > n/2 (so never with t = 0) and a
\* verification vector of t entries, and every account record and account
\* object there is has such a threshold and vector.
C3_ThresholdInvariant ==
    /\ (lastOp.op = "ImportDistributedAccount" /\ lastOp.err = ErrNone) =>
          ThresholdOK(input.signingThreshold, Cardinality(input.participants),
                      Len(input.verificationVector))
    /\ \A rec \in store.accounts :
          ThresholdOK(rec.signing_threshold, Cardinality(rec.participants), Len(rec.verificationvector))
    /\ \A ref \in DOMAIN heap :
          ThresholdOK(heap[ref].signingThreshold, Cardinality(heap[ref].participants),
                      Len(heap[ref].verificationVector))

\* An import has succeeded with fewer participants than the bound allows.
C3_Witness ==
    /\ lastOp.op = "ImportDistributedAccount"
    /\ lastOp.err = ErrNone
    /\ store.accounts # {}
    /\ Cardinality(input.participants) = 2 * input.signingThreshold - 2

\* ------------------------------------------------------------------ C4

\* C4: a wallet that CreateWallet or OpenWallet has just returned is locked;
\* an import of well-formed input is refused with the wallet-locked error,
\* leaving wallet, accounts and Store alone, unless the last Lock/Unlock call
\* on the instance was Unlock (whatever its passphrase), and is then not
\* refused for the lock.
C4_ImportNeedsUnlock ==
    [][/\ (lastOp'.op \in {"CreateWallet", "OpenWallet"} /\ lastOp'.err = ErrNone) => ~w'.unlocked
       /\ lastOp'.op = "ImportDistributedAccount" =>
             IF lastLocker = "Unlock" THEN lastOp'.err # ErrWalletLocked
             ELSE lastOp'.err = ErrWalletLocked /\ UNCHANGED <<w, heap, store>>]_vars

\* An import is refused after Unlock, a successful import and Lock.
C4_Witness ==
    /\ lastOp.op = "ImportDistributedAccount"
    /\ lastOp.err = ErrWalletLocked
    /\ lastLocker = "Lock"
    /\ store.accounts # {}

\* ------------------------------------------------------------------ C5

\* C5: no two account records of the wallet in the Store have the same name.
C5_UniqueNames ==
    \A r1 \in store.accounts, r2 \in store.accounts : r1.name = r2.name => r1.uuid = r2.uuid

\* ------------------------------------------------------------------ C6

\* C6: after a successful import the record is in the Store, the account is
\* in the cache, AccountByName(name) and AccountByID(id) resolve to the id,
\* name and public key of the import, and the returned account is locked:
\* PrivateKey fails, Unlock succeeds with the import passphrase and no
\* other, and PrivateKey succeeds after it.
C6_ImportedAccountResolves ==
    [][\A in \in ImportInputs :
          (ImportDistributedAccount(in, FALSE, "none") /\ lastOp'.err = ErrNone) =>
              LET id == lastOp'.id
                  a == heap'[lastOp'.ref]
                  expect == [uuid |-> id, name |-> in.name, pubkey |-> PublicKey(in.privatekey)]
              IN /\ \E rec \in store'.accounts : rec.uuid = id /\ rec.name = in.name
                 /\ id \in DOMAIN w'.accounts /\ w'.accounts[id] = lastOp'.ref
                 /\ Resolved(AccountByNameOp(w', heap', store', in.name, FALSE, FALSE)) = expect
                 /\ Resolved(AccountByIDOp(w', heap', store', id, FALSE, FALSE)) = expect
                 /\ PrivateKeyErr(a) = ErrKeyLocked
                 /\ \A p \in Passphrases : UnlockOp(a, p).err = ErrNone <=> p = in.passphrase
                 /\ PrivateKeyErr(UnlockOp(a, in.passphrase).account) = ErrNone
                 /\ UnlockOp(a, in.passphrase).account.secretKey = in.privatekey]_vars

\* A second account has just been imported and is in the cache.
C6_Witness ==
    /\ lastOp.op = "ImportDistributedAccount"
    /\ lastOp.err = ErrNone
    /\ lastOp.id \in DOMAIN w.accounts
    /\ Cardinality(store.accounts) = 2

\* ------------------------------------------------------------------ C7

\* C7: Sign and PrivateKey succeed exactly when the account holds its key; an
\* account is handed out without it, gets it only by a successful Unlock of
\* that account (or the decryption of its batch), has it right after a
\* successful Unlock, and Lock returns no error and takes it away.
C7_SignIffUnlocked ==
    [][/\ lastOp'.op \in {"Sign", "PrivateKey"} =>
             (lastOp'.err = ErrNone <=> heap[lastOp'.ref].secretKey # <<>>)
       /\ lastOp'.op = "AccountLock" =>
             (lastOp'.err = ErrNone /\ heap'[lastOp'.ref].secretKey = <<>>)
       /\ (lastOp'.op = "AccountUnlock" /\ lastOp'.err = ErrNone) =>
             heap'[lastOp'.ref].secretKey # <<>>
       /\ \A ref \in DOMAIN heap' :
             (heap'[ref].secretKey # <<>> /\ (ref \in DOMAIN heap => heap[ref].secretKey = <<>>)) =>
                 \/ lastOp'.op = "AccountUnlock" /\ lastOp'.err = ErrNone /\ lastOp'.ref = ref
                 \/ lastOp'.op = "batchDecrypt" /\ heap'[ref].crypto.nil]_vars

\* Sign has succeeded on one account while another of the wallet is locked.
C7_Witness ==
    /\ lastOp.op = "Sign"
    /\ lastOp.err = ErrNone
    /\ \E ref \in DOMAIN heap : heap[ref].secretKey = <<>>

\* ------------------------------------------------------------------ C8

\* C8: Unlock of a locked account with a passphrase that does not decrypt its
\* crypto returns 'incorrect passphrase'; and an Unlock that returns an
\* error, whichever, leaves every account as it was, the account locked.
C8_FailedUnlockStoresNothing ==
    [][\A ref \in DOMAIN heap, p \in Passphrases :
          AccountUnlock(ref, p) =>
              /\ (heap[ref].secretKey = <<>> /\ (heap[ref].crypto.nil \/ heap[ref].crypto.passphrase # p))
                    => lastOp'.err = ErrPassphrase
              /\ lastOp'.err # ErrNone => (heap' = heap /\ heap'[ref].secretKey = <<>>)]_vars

\* Unlock has failed on a decrypted secret that is not the account's key.
C8_Witness ==
    /\ lastOp.op = "AccountUnlock"
    /\ lastOp.err = ErrKeyMismatch
    /\ heap[lastOp.ref].secretKey = <<>>

\* ------------------------------------------------------------------ C9

\* C9: an account that holds a secret key holds the one of its public key.
C9_KeyMatchesPublicKey ==
    \A ref \in DOMAIN heap :
        heap[ref].secretKey # <<>> => PublicKey(heap[ref].secretKey) = heap[ref].publicKey

\* An account materialized from a batch and an account read from its record
\* both hold their keys.
C9_Witness ==
    /\ \E ref \in DOMAIN heap : heap[ref].secretKey # <<>> /\ heap[ref].crypto.nil
    /\ \E ref \in DOMAIN heap : heap[ref].secretKey # <<>> /\ ~heap[ref].crypto.nil

\* ------------------------------------------------------------------ C10

\* C10: when the index record is deleted from a Store in which index and
\* account records agree, the OpenWallet that follows has the index of before
\* the deletion, in memory and in the Store.
C10_RebuiltIndexSame ==
    [][(lastOp.op = "DeleteIndex" /\ lastOp.yield = StorePairs(store)
        /\ lastOp'.op = "OpenWallet" /\ lastOp'.err = ErrNone)
          => /\ IndexSerialize(w'.index) = lastOp.yield
             /\ store'.index = [present |-> TRUE, data |-> lastOp.yield, valid |-> TRUE]]_vars

\* ------------------------------------------------------------------ C11

\* The fields of an account record that an export and import must keep.
PublicFields(rec) ==
    [id |-> deserializeAccount(rec).id,
     publicKey |-> deserializeAccount(rec).publicKey,
     verificationVector |-> deserializeAccount(rec).verificationVector,
     signingThreshold |-> deserializeAccount(rec).signingThreshold,
     participants |-> deserializeAccount(rec).participants]

\* C11: when the dump of an export is imported into an empty Store, every
\* account record the exported wallet had has a record in the new Store with
\* the same ID, public key, verification vector, threshold and participants,
\* the new wallet resolves the ID, and Unlock with the account's original
\* passphrase succeeds and gives the secret bytes the account was imported with.
C11_ExportImportRoundTrip ==
    [][(lastOp'.op = "Import" /\ lastOp'.err = ErrNone /\ store \in EmptyStores) =>
          \A rec \in dump.exported :
              /\ \E rec2 \in store'.accounts :
                    /\ PublicFields(rec2) = PublicFields(rec)
                    /\ \A c \in Credentials : c.name = rec.name =>
                          /\ UnlockOp(deserializeAccount(rec2), c.passphrase).err = ErrNone
                          /\ UnlockOp(deserializeAccount(rec2), c.passphrase).account.secretKey = c.privatekey
              /\ Resolved(AccountByIDOp(w', heap', store', rec.uuid, FALSE, FALSE)).uuid = rec.uuid]_vars

\* A wallet of two accounts has been exported and imported into another Store.
C11_Witness ==
    /\ lastOp.op = "Import"
    /\ lastOp.err = ErrNone
    /\ Cardinality(dump.exported) = 2
    /\ Cardinality(store.accounts) = 2
    /\ w.id = dump.wallet.uuid

\* ------------------------------------------------------------------ C12

\* C12: an Import into a Store that holds a wallet record of the dump's
\* wallet name returns an error and leaves the Store as it was.
C12_ImportRefusedWhenWalletExists ==
    [][(lastOp'.op = "Import" /\ StoreHasWallet(store, dump.wallet.name))
          => (lastOp'.err # ErrNone /\ store' = store)]_vars

\* ------------------------------------------------------------------ C13

UniqueWalletNames(S) == \A r1 \in S.wallets, r2 \in S.wallets : r1.name = r2.name => r1.uuid = r2.uuid

\* C13: CreateWallet(name) on a Store that has a wallet of the name returns
\* 'already exists' and leaves the Store as it was; on any other Store it adds
\* one wallet record of that name, version 1 and an ID no wallet has had, and
\* stores an empty index; and it never makes two wallets share a name.
C13_CreateWalletUnique ==
    [][\A name \in WalletNames :
          CreateWallet(name) =>
              /\ IF StoreHasWallet(store, name)
                     THEN lastOp'.err = ErrWalletExists /\ store' = store
                 ELSE /\ lastOp'.err = ErrNone
                      /\ \E rec \in store'.wallets :
                            /\ rec.name = name /\ rec.version = 1 /\ rec.type = walletType
                            /\ rec.uuid \notin {r.uuid : r \in store.wallets} \cup {dump.wallet.uuid}
                            /\ store'.wallets = store.wallets \cup {rec}
                      /\ store'.index = [present |-> TRUE, data |-> {}, valid |-> TRUE]
              /\ UniqueWalletNames(store) => UniqueWalletNames(store')]_vars

\* CreateWallet has been refused on a Store whose wallet holds accounts.
C13_Witness ==
    /\ lastOp.op = "CreateWallet"
    /\ lastOp.err = ErrWalletExists
    /\ store.accounts # {}

\* ------------------------------------------------------------------ C14

\* The instance was made by OpenWallet on a Store holding the batch it holds
\* now, and the batch has entries.
ReopenedOnBatch ==
    open /\ batchAtOpen.present /\ batchAtOpen = store.batch /\ Len(store.batch.entries) > 0

BatchPairs(b) == {[uuid |-> b.entries[i].uuid, name |-> b.entries[i].name] : i \in DOMAIN b.entries}

\* The name and the public fields of an account object.
AccountFields(a) ==
    [id |-> a.id, name |-> a.name, publicKey |-> a.publicKey,
     verificationVector |-> a.verificationVector, signingThreshold |-> a.signingThreshold,
     participants |-> a.participants]

\* C14: on an instance opened after the batch was built, each Accounts() scan
\* sends one account per batch entry and no other, with the id, name, public
\* key, verification vector, threshold and participants of the account's
\* record (written before the batch was built).
C14_BatchScanExact ==
    [][(lastOp'.op = "Accounts" /\ ReopenedOnBatch) =>
          /\ lastOp'.yield = BatchPairs(store.batch)
          /\ lastOp'.sent = Len(store.batch.entries)
          /\ \A e \in BatchPairs(store.batch) :
                /\ e.uuid \in DOMAIN w'.accounts
                /\ AccountFields(heap'[w'.accounts[e.uuid]])
                      = AccountFields(deserializeAccount(StoreAccountRecord(store, e.uuid)))]_vars

\* ------------------------------------------------------------------ C15

\* C15: on an instance opened after the batch was built, Unlock with the
\* batch passphrase of an account made from the batch returns no error and
\* leaves the account with its key, so that Sign and PrivateKey succeed.
C15_BatchPassphraseUnlocks ==
    [][\A ref \in DOMAIN heap, p \in Passphrases :
          (/\ AccountUnlock(ref, p)
           /\ ReopenedOnBatch
           /\ heap[ref].crypto.nil
           /\ p = store.batch.crypto.passphrase)
              => /\ lastOp'.err = ErrNone
                 /\ SignErr(heap'[ref]) = ErrNone
                 /\ PrivateKeyErr(heap'[ref]) = ErrNone]_vars

\* ------------------------------------------------------------------ C16

\* The records of imported accounts that the batch has no entry for.
PostBatchRecords(S) ==
    {rec \in S.accounts : /\ \E c \in Credentials : c.name = rec.name
                          /\ rec.uuid \notin {e.uuid : e \in BatchPairs(S.batch)}}

\* The lookup that returned lastOp' gave the account of record rec, which its
\* own passphrase unlocks.
ResolvedFromRecord(rec) ==
    /\ lastOp'.err = ErrNone
    /\ lastOp'.id = rec.uuid
    /\ AccountFields(heap'[lastOp'.ref]) = AccountFields(deserializeAccount(rec))
    /\ \A c \in Credentials : c.name = rec.name =>
          /\ UnlockOp(heap'[lastOp'.ref], c.passphrase).err = ErrNone
          /\ UnlockOp(heap'[lastOp'.ref], c.passphrase).account.secretKey = c.privatekey

\* C16: on an instance opened after the batch was built, AccountByName and
\* AccountByID resolve an account imported after the batch to the account of
\* its record, unlockable with its own passphrase; and no Accounts() scan
\* sends an account ID twice.
C16_PostBatchAccountResolves ==
    [][/\ ReopenedOnBatch =>
             \A rec \in PostBatchRecords(store) :
                 /\ AccountByName(rec.name, FALSE) => ResolvedFromRecord(rec)
                 /\ AccountByID(rec.uuid, FALSE) => ResolvedFromRecord(rec)
       /\ lastOp'.op = "Accounts" => lastOp'.sent = Cardinality({x.uuid : x \in lastOp'.yield})]_vars

\* An account the batch has no entry for has been looked up by name on an
\* instance that serves the batch.
C16_Witness ==
    /\ ReopenedOnBatch
    /\ BatchInUse(w)
    /\ lastOp.op = "AccountByName"
    /\ lastOp.err = ErrNone
    /\ lastOp.id \notin {e.uuid : e \in BatchPairs(store.batch)}

\* ------------------------------------------------------------------ C17

\* Some candidate passphrase unlocks the account of the record.
Unlockable(rec, passphrases) ==
    /\ UnmarshalAccountErr(rec) = ErrNone
    /\ \E i \in DOMAIN passphrases : UnlockOp(deserializeAccount(rec), passphrases[i]).err = ErrNone

\* C17: BatchWallet on a Store that takes batches returns an error and leaves
\* the batch record as it was when some account record of the Store is
\* unlocked by none of the passphrases; else it stores a batch with an entry
\* for every account record of the Store.
C17_BatchAllOrNothing ==
    [][\A ps \in PassphraseLists, bp \in BatchPassphrases, records \in Orders(store.accounts) :
          (BatchWallet(ps, bp, records) /\ store.batchCapable) =>
              IF \E rec \in store.accounts : ~Unlockable(rec, ps)
                  THEN lastOp'.err = ErrBatchUnlock /\ store'.batch = store.batch
              ELSE /\ lastOp'.err = ErrNone
                   /\ store'.batch.present
                   /\ {e.uuid : e \in BatchPairs(store'.batch)} = {rec.uuid : rec \in store.accounts}]_vars

\* ------------------------------------------------------------------ C18

\* The records written by ImportDistributedAccount (named by a credential).
ImportedRecords(S) ==
    {rec \in S.accounts : \E c \in Credentials : c.name = rec.name}

\* C18: every Accounts() scan sends every account whose record is in the
\* Store, the accounts imported after the batch was built included.
C18_AccountsComplete ==
    [][lastOp'.op = "Accounts" =>
          {[uuid |-> rec.uuid, name |-> rec.name] : rec \in ImportedRecords(store)}
              \subseteq lastOp'.yield]_vars

\* ------------------------------------------------------------------ C19

\* The call of thread t returns in this step.
Returns(t) == threads.running /\ threads.pc[t] # "done" /\ threads'.pc[t] = "done"

\* The records of the Store that deserialize, as {uuid, name}.
StoredPairs(S) ==
    {[uuid |-> rec.uuid, name |-> rec.name] : rec \in {x \in S.accounts : UnmarshalAccountErr(x) = ErrNone}}

\* C19: in every interleaving of Accounts, AccountByID and AccountByName (and
\* imports) on one instance RetrieveBatch is called at most once; after a
\* failed call it is never called again, and the lookups that return then
\* give what the Store's account records give.
C19_RetrieveBatchOnce ==
    [][/\ threads'.retrieveBatchCalls <= 1
       /\ threads.failed => threads'.retrieveBatchCalls = threads.retrieveBatchCalls
       /\ \A t \in Threads :
             (threads.failed /\ Returns(t)) =>
                 /\ threads.call[t].kind = "Accounts" => threads'.yield[t] = StoredPairs(store)
                 /\ threads.call[t].kind = "AccountByID" =>
                        IF threads.call[t].id \in {x.uuid : x \in StoredPairs(store)}
                            THEN /\ threads'.err[t] = ErrNone
                                 /\ heap'[threads'.ref[t]] =
                                        deserializeAccount(StoreAccountRecord(store, threads.call[t].id))
                        ELSE threads'.err[t] # ErrNone
                 /\ threads.call[t].kind = "AccountByName" =>
                        IF IndexHasName(w.index, threads.call[t].name)
                               /\ IndexID(w.index, threads.call[t].name) \in {x.uuid : x \in StoredPairs(store)}
                            THEN /\ threads'.err[t] = ErrNone
                                 /\ heap'[threads'.ref[t]].name = threads.call[t].name
                        ELSE threads'.err[t] # ErrNone]_vars

\* Two threads met at the first access: one called RetrieveBatch and failed,
\* the other waited for the lock and found the marker; a lookup by ID has
\* returned the account of a Store record since.
C19_Witness ==
    /\ threads.failed /\ threads.retrieveBatchCalls = 1
    /\ \E t \in Threads : threads.waited[t]
    /\ \E t \in Threads : /\ threads.call[t].kind = "AccountByID" /\ threads.pc[t] = "done"
                           /\ threads.err[t] = ErrNone
    /\ store.batch.present

\* ------------------------------------------------------------------ C20

\* C20: every write to the index or to the account cache is made by a thread
\* that holds the primary lock (w.mutex), and no thread reads or iterates the
\* cache while another writes it.
C20_PrimaryLockProtects ==
    [][/\ \A t \in Threads :
             (threads.running /\ threads'.pc[t] # threads.pc[t]
                  /\ (w'.accounts # w.accounts \/ heap' # heap \/ w'.index # w.index))
                 => threads.mutex = t
       /\ ~CacheRace']_vars

\* ------------------------------------------------------------------ C21

\* The import of thread t has returned the new account.
ImportSucceeded(t) ==
    /\ threads.call[t].kind = "ImportDistributedAccount"
    /\ threads.pc[t] = "done" /\ threads.id[t] # 0 /\ threads.err[t] = ErrNone

\* C21: of two threads that import the same name on one wallet instance at
\* most one succeeds, and the Store never holds two account records of the
\* wallet with one name.
C21_UniqueNamesConcurrent ==
    /\ \A t1, t2 \in Threads :
          (t1 # t2 /\ threads.running /\ ImportSucceeded(t1) /\ ImportSucceeded(t2))
              => threads.call[t1].name # threads.call[t2].name
    /\ \A r1, r2 \in store.accounts : r1.uuid # r2.uuid => r1.name # r2.name

\* ------------------------------------------------------------------ C22

\* The Store holds a readable wallet record of the name and an index record
\* that is absent or is no index.
IndexLost(S, name) ==
    /\ StoreHasWallet(S, name)
    /\ \A rec \in StoreWalletRecords(S, name) : UnmarshalWalletOK(rec)
    /\ ~S.index.present \/ ~S.index.valid

\* C22: OpenWallet on a Store whose index record is absent or unparsable
\* succeeds, with the index rebuilt from every account record of the Store
\* and persisted.
C22_IndexRebuiltOnOpen ==
    [][(lastOp'.op = "OpenWallet" /\ \E name \in WalletNames : IndexLost(store, name)) =>
          /\ lastOp'.err = ErrNone
          /\ store'.index = [present |-> TRUE, data |-> StoredPairs(store), valid |-> TRUE]
          /\ IndexSerialize(w'.index) = StoredPairs(store)]_vars

\* ------------------------------------------------------------------ C23

\* The calls that leave the wallet instance in place.
InstanceCalls ==
    {"ImportDistributedAccount", "AccountByID", "AccountByName", "Accounts", "BatchWallet",
     "WalletLock", "WalletUnlock"}

\* The account of the record is registered: the index maps its name to its ID.
Registered(W, rec) == IndexHasName(W.index, rec.name) /\ IndexID(W.index, rec.name) = rec.uuid

\* C23: an account that has been imported stays: after every later call on
\* the instance the index maps its name to its ID and its record is in the
\* Store as it was.
C23_AccountsNeverRemoved ==
    [][lastOp'.op \in InstanceCalls =>
          \A rec \in ImportedRecords(store) :
              Registered(w, rec) => (Registered(w', rec) /\ rec \in store'.accounts)]_vars

\* ------------------------------------------------------------------ C24

\* The accounts of the instance that were materialized from the batch: they
\* have no crypto of their own.
BatchedRefs(W, H) == {ref \in DOMAIN H : H[ref].crypto.nil /\ H[ref].id \in DOMAIN W.accounts
                                              /\ W.accounts[H[ref].id] = ref}

\* C24: after a successful Unlock of a batched account every account
\* materialized from the batch holds its secret key.
C24_UnlockDecryptsWholeBatch ==
    [][\A ref \in BatchedRefs(w, heap), p \in Passphrases :
          (AccountUnlock(ref, p) /\ lastOp'.err = ErrNone)
              => \A other \in BatchedRefs(w, heap) : heap'[other].secretKey # <<>>]_vars

\* ------------------------------------------------------------------ C25

\* C25: once the batch has been decrypted on the instance it is not
\* decrypted again (batchDecrypt changes nothing), and every Unlock of a
\* batched account succeeds whatever the passphrase.
C25_BatchDecryptMemoized ==
    [][w.batchDecrypted =>
          /\ lastOp'.op = "batchDecrypt" => (lastOp'.err = ErrNone /\ w' = w /\ heap' = heap)
          /\ \A ref \in BatchedRefs(w, heap), p \in Passphrases :
                AccountUnlock(ref, p) => lastOp'.err = ErrNone]_vars

\* ------------------------------------------------------------------ C26

\* The instance holds the Store's batch, not yet decrypted, with every entry
\* materialized.
BatchLoaded ==
    /\ open /\ store.batch.present /\ w.batch.set /\ ~w.batchDecrypted
    /\ w.batch.entries = store.batch.entries /\ w.batch.crypto = store.batch.crypto
    /\ \A e \in BatchPairs(store.batch) : e.uuid \in DOMAIN w.accounts

\* C26: batchDecrypt with the batch passphrase, on a batch BatchWallet built
\* in whatever order the Store gave the accounts, succeeds and gives every
\* batched account the secret key of its own record.
C26_BatchOrderAgrees ==
    [][\A p \in Passphrases :
          (batchDecrypt(p) /\ BatchLoaded /\ p = store.batch.crypto.passphrase) =>
              /\ lastOp'.err = ErrNone
              /\ \A e \in BatchPairs(store.batch) :
                    heap'[w.accounts[e.uuid]].secretKey = StoreAccountRecord(store, e.uuid).crypto.secret]_vars

\* A batch of two accounts with different keys has been decrypted.
C26_Witness ==
    /\ lastOp.op = "batchDecrypt" /\ lastOp.err = ErrNone /\ w.batchDecrypted
    /\ Len(w.batch.entries) = 2
    /\ w.batch.entries = store.batch.entries
    /\ heap[w.accounts[w.batch.entries[1].uuid]].secretKey # heap[w.accounts[w.batch.entries[2].uuid]].secretKey
    /\ \A e \in BatchPairs(store.batch) : heap[w.accounts[e.uuid]].crypto.nil

\* ------------------------------------------------------------------ C27

\* C27: an ImportDistributedAccount that returns an error leaves the account
\* records and the index record of the Store as they were, and the index
\* record still is the serialized in-memory index if it was before.
C27_FailedImportPersistsNothing ==
    [][(lastOp'.op = "ImportDistributedAccount" /\ lastOp'.err # ErrNone) =>
          /\ store'.accounts = store.accounts
          /\ store'.index = store.index
          /\ store.index.data = IndexSerialize(w.index) => store'.index.data = IndexSerialize(w'.index)]_vars

\* ------------------------------------------------------------------ C28

\* C28: a batchDecrypt that returns an error unlocks no account and leaves
\* the batch marked as not decrypted.
C28_FailedBatchDecryptUnlocksNothing ==
    [][(lastOp'.op = "batchDecrypt" /\ lastOp'.err # ErrNone) =>
          /\ ~w'.batchDecrypted
          /\ \A ref \in DOMAIN heap : heap[ref].secretKey = <<>> => heap'[ref].secretKey = <<>>]_vars

\* ------------------------------------------------------------------ C29

\* retrieveAccountsBatch on Store S returns an error: RetrieveBatch fails
\* (fault, or no batch record), or an entry is not materialized.
RetrieveBatchFails(S, bfault) ==
    \/ ~S.batch.present \/ bfault
    \/ \E i \in DOMAIN S.batch.entries : ~BatchEntryOK(S.batch.entries[i])

\* C29: when the retrieveAccountsBatch that the first Accounts or
\* AccountByID call makes returns an error, the batch marker has no entries
\* afterwards and no account materialized from the batch is in the cache.
C29_FailedBatchRetrievalLeavesNothing ==
    [][\A bfault \in BOOLEAN :
          (/\ Accounts(bfault) \/ \E id \in 1..MaxAccounts : AccountByID(id, bfault)
           /\ ~w.batch.set /\ store.batchCapable /\ RetrieveBatchFails(store, bfault))
              => /\ w'.batch.set /\ w'.batch.entries = <<>>
                 /\ BatchedRefs(w', heap') = {}]_vars

\* ------------------------------------------------------------------ C30

\* Thread t is inside the method of its call: it holds the account's lock.
Inside(t, kind) == At(t, "held") /\ threads.call[t].kind = kind

\* The calls of t and u are on objects of different accounts.
DifferentAccounts(t, u) ==
    /\ threads.call[t].id # threads.call[u].id
    /\ heap[threads.call[t].id].id # heap[threads.call[u].id].id

\* C30: while a thread is inside Unlock of account A, a thread that calls
\* Lock, Unlock, Sign or PrivateKey on another account B is not blocked by
\* it, nor by a holder of w.mutex or w.batchMutex: it can take B's lock
\* unless a third thread holds that very lock.
C30_AccountLocksIndependent ==
    \A t, u \in Threads :
        (t # u /\ Inside(t, "Unlock") /\ At(u, "account") /\ DifferentAccounts(t, u))
            => \/ ENABLED accountAcquire(u)
               \/ \E v \in Threads \ {t, u} :
                     At(v, "held") /\ threads.call[v].id = threads.call[u].id

\* A thread is inside an Unlock that decrypts, another is about to take the
\* lock of another account, and w.mutex and w.batchMutex are held elsewhere.
C30_Witness ==
    \E t, u \in Threads :
        /\ t # u /\ DifferentAccounts(t, u)
        /\ Inside(t, "Unlock") /\ heap[threads.call[t].id].secretKey = <<>>
        /\ At(u, "account") /\ threads.call[u].kind = "Unlock"
        /\ threads.mutex # 0 /\ threads.batchMutex # 0

\* ------------------------------------------------------------------ C31

\* C31: when the next step of a thread writes the secretKey of an account and
\* the next step of another thread reads or writes the same secretKey, both
\* hold that account's mutex (so that, the mutex being exclusive for a
\* writer, no such pair of steps exists).
C31_KeyUnderAccountMutex ==
    \A t, u \in Threads, ref \in DOMAIN heap :
        (t # u /\ KeyWrite(t, ref) /\ ref \in KeyAccess(u))
            => HoldsAccountMutex(t, ref) /\ HoldsAccountMutex(u, ref)

\* ------------------------------------------------------------------ C32

\* C32: every call that threads make on the wallet instance returns.
C32_EveryCallReturns == threads.running ~> (\A t \in Threads : threads.pc[t] = "done")

\* ------------------------------------------------------------------ C33

\* Every thread calls Accounts(), on a Store whose batch record (if it has
\* one) lists every account record.
OnlyAccountsCalls ==
    /\ threads.running /\ ~threads.fatal
    /\ \A t \in Threads : threads.call[t].kind = "Accounts"
    /\ store.batch.present => BatchPairs(store.batch) = StoredPairs(store)

\* C33: of concurrent Accounts() calls, each one that has closed its channel
\* has sent the complete sequence, every account of the wallet, whatever the
\* other calls do.
C33_AccountsCallsIndependent ==
    \A t \in Threads :
        (OnlyAccountsCalls /\ threads.pc[t] = "done") => threads.yield[t] = StoredPairs(store)

\* ------------------------------------------------------------------ C34

\* C34: Unlock of an account that holds its key returns success for every
\* passphrase and leaves the account, and every other account, as it was.
C34_UnlockIdempotent ==
    [][\A ref \in DOMAIN heap, p \in Passphrases :
          (AccountUnlock(ref, p) /\ heap[ref].secretKey # <<>>)
              => lastOp'.err = ErrNone /\ heap' = heap /\ w' = w /\ store' = store]_vars

\* Unlock has succeeded on an unlocked account that no passphrase decrypts
\* (it was made from a batch and has no crypto of its own).
C34_Witness ==
    /\ lastOp.op = "AccountUnlock" /\ lastOp.err = ErrNone
    /\ lastOp.ref \in DOMAIN heap
    /\ heap[lastOp.ref].crypto.nil /\ heap[lastOp.ref].secretKey # <<>>

\* ------------------------------------------------------------------ C35

\* C35: an Export that succeeds holds exactly the account records the Store
\* holds at the call, whatever the batch and the cache of the instance hold,
\* and it leaves the Store (index included), the instance and every account
\* object as they were.
C35_ExportFromStore ==
    [][\A p \in Passphrases, records \in Orders(store.accounts) :
          (Export(p, records) /\ lastOp'.err = ErrNone)
              => /\ {dump'.accounts[i] : i \in DOMAIN dump'.accounts} = store.accounts
                 /\ Len(dump'.accounts) = Cardinality(store.accounts)
                 /\ store' = store /\ w' = w /\ heap' = heap]_vars

\* An export of two accounts by an instance whose batch holds one of them
\* only, and whose cache holds an unlocked account.
C35_Witness ==
    /\ lastOp.op = "Export" /\ lastOp.err = ErrNone
    /\ dump.exported = store.accounts /\ Len(dump.accounts) = 2
    /\ BatchInUse(w) /\ Len(w.batch.entries) = 1
    /\ \E id \in DOMAIN w.accounts : heap[w.accounts[id]].secretKey # <<>>

\* ------------------------------------------------------------------ C36

\* C36: a lookup by ID or by name of an account that the instance has in its
\* cache (an earlier lookup or the import returned it) returns the cached
\* account object, with the lock state it had.
C36_LookupsCached ==
    [][(lastOp'.op \in {"AccountByID", "AccountByName"} /\ lastOp'.err = ErrNone
        /\ lastOp'.id \in DOMAIN w.accounts)
          => /\ lastOp'.ref = w.accounts[lastOp'.id]
             /\ heap'[lastOp'.ref].secretKey = heap[w.accounts[lastOp'.id]].secretKey]_vars

\* ------------------------------------------------------------------ C37

\* C37: BatchWallet on a Store that cannot store batches returns the error
\* of the missing support, whatever accounts the Store holds and whether the
\* passphrases unlock them or not, and leaves the Store, the instance and the
\* account objects as they were.
C37_BatchWalletNeedsBatchStore ==
    [][(lastOp'.op = "BatchWallet" /\ ~store.batchCapable)
          => /\ lastOp'.err = ErrBatchStore
             /\ store' = store /\ w' = w /\ heap' = heap]_vars

\* BatchWallet has been refused on a Store without batch support that holds
\* an account record no passphrase unlocks.
C37_Witness ==
    /\ lastOp.op = "BatchWallet" /\ lastOp.err = ErrBatchStore
    /\ ~store.batchCapable
    /\ \E rec \in store.accounts :
          /\ UnmarshalAccountErr(rec) = ErrNone
          /\ \A p \in Passphrases : UnlockOp(deserializeAccount(rec), p).err # ErrNone

\* ------------------------------------------------------------------ C38

\* C38: after an Unlock that returned success the account holds its secret
\* key: IsUnlocked is true, Sign and PrivateKey succeed; for accounts fetched
\* from the Store and for accounts made from a batch alike.
C38_UnlockedAfterUnlock ==
    [][(lastOp'.op = "AccountUnlock" /\ lastOp'.err = ErrNone)
          => /\ heap'[lastOp'.ref].secretKey # <<>>
             /\ SignErr(heap'[lastOp'.ref]) = ErrNone
             /\ PrivateKeyErr(heap'[lastOp'.ref]) = ErrNone]_vars

\* Unlock has succeeded on an account fetched from the Store, in an instance
\* whose batch is decrypted and has an account that was locked afterwards.
C38_Witness ==
    /\ lastOp.op = "AccountUnlock" /\ lastOp.err = ErrNone
    /\ lastOp.ref \in DOMAIN heap
    /\ ~heap[lastOp.ref].crypto.nil /\ heap[lastOp.ref].secretKey = heap[lastOp.ref].crypto.secret
    /\ w.batchDecrypted
    /\ \E ref \in BatchedRefs(w, heap) : heap[ref].secretKey = <<>>

\* ------------------------------------------------------------------ C39

\* The eight fields in the order of the claim, each TRUE when the document
\* lacks it or holds no valid value for it.
FieldFails(doc) ==
    <<doc.uuid \notin {v \in UUIDValues : v.tag = "string" /\ v.val # 0},
      doc.name.tag # "string",
      doc.pubkey # [tag |-> "string", val |-> HexEncode(PublicKey(Key1))],
      doc.verificationvector # [tag |-> "array", val |-> <<[tag |-> "string", val |-> HexEncode(PublicKey(Key1))]>>],
      doc.participants.tag # "object" \/ \E e \in doc.participants.val : e.decimal < 0 \/ ~e.str,
      doc.signing_threshold.tag # "number"
          \/ (doc.participants.tag = "object"
                /\ doc.signing_threshold.val.whole <= Cardinality(doc.participants.val) \div 2),
      doc.crypto.tag # "object",
      doc.version # [tag |-> "number", val |-> Float(4, FALSE)]>>

\* The errors that name each field.
FieldErrors ==
    <<{"account ID missing", "account ID invalid", "failed to parse UUID"},
      {"account name missing", "account name invalid"},
      {"account pubkey missing", "account pubkey invalid", "failed to decode public key",
       "failed to obtain BLS public key"},
      {"account verificationvector missing", "account verificationvector invalid",
       "account verification vector does not contain strings",
       "failed to decode verification vector element",
       "failed to obtain BLS public key for verification fector element"},
      {"participants missing", "account participants invalid", "account participant ID invalid",
       "account participant value invalid"},
      {"account signing threshold missing", "account signing threshold invalid",
       "account signing threshold too low"},
      {"account crypto missing", "account crypto invalid"},
      {"account version missing", "account version invalid", "unsupported keystore version"}>>

\* C39: deserializeAccount of a JSON object returns an error of the first of
\* the fields uuid, name, pubkey, verificationvector, participants,
\* signing_threshold, crypto, version that is missing or invalid, and no
\* account with it; it returns an account and no error when none is.
C39_FirstBadFieldReported ==
    [][(lastOp'.op = "deserializeAccount" /\ ~input.malformed)
          => IF FirstFailing(FieldFails(input)) = 0
                 THEN lastOp'.err = ErrNone /\ Cardinality(lastOp'.yield) = 1
             ELSE /\ lastOp'.err \in FieldErrors[FirstFailing(FieldFails(input))]
                  /\ lastOp'.yield = {}]_vars

====
